---- MODULE Spec2Model ----
(***************************************************************************)
(* A model of bevy_rigid_body: the spatial algebra (sva.rs), the joint     *)
(* (joint.rs), the traversal engine (structure.rs), the car's force models *)
(* (car/physics.rs), its construction (car/create_car_json.rs,             *)
(* car/build_from_json.rs) and its physics schedule                        *)
(* (examples/car/schedule.rs).                                             *)
(*                                                                         *)
(* Numbers.  An f32 is modelled by an integer: every quantity is drawn     *)
(* from a small grid on which the arithmetic used here is exact.  The one  *)
(* exception is the joint velocity qd, which keeps its IEEE sign bit       *)
(* (see F32) because f32::signum reads it.  Angles are counted in quarter  *)
(* turns, the only angles whose sine and cosine are integers.  NaN and the *)
(* infinities are outside the model.                                       *)
(***************************************************************************)
EXTENDS Integers, Sequences, FiniteSets, TLC

\* ------------------------------------------------------------------ bounds
\* Entities of a forest drawn for the traversal specification.
MaxEntities == 4
\* Candidate state vectors and control records drawn per dynamics evaluation.
MaxStateChoice == 2
\* Dynamics evaluations in a row (the stages of one integrator step).
MaxEvals == 2
\* Largest magnitude of a drawn joint velocity, height or vertical velocity
\* in the force specification.
MaxMag == 2
\* Largest magnitude of a drawn velocity along the ground in it.
MaxVel == 6
\* Frames in which the user's input is read.
MaxFrames == 1
\* joint definitions after the base in a drawn model description
MaxDefs == 2
\* samples in a drawn time vector
MaxLen == 3

\* ------------------------------------------------------------- small helpers
Abs(n) == IF n < 0 THEN -n ELSE n

Sgn(n) == IF n > 0 THEN 1 ELSE IF n < 0 THEN -1 ELSE 0

Max2(a, b) == IF a >= b THEN a ELSE b

Min2(a, b) == IF a <= b THEN a ELSE b

None == "None"

\* ----------------------------------------------------------- f32 sign bit
\* An f32 whose sign bit is kept: neg is the sign bit, mag the magnitude, so
\* [neg |-> TRUE, mag |-> 0] is -0.0 and [neg |-> FALSE, mag |-> 0] is +0.0.
F32(neg, mag) == [neg |-> neg, mag |-> mag]

\* The number an f32 stands for (-0.0 and +0.0 are both 0).
Num(x) == IF x.neg THEN -(x.mag) ELSE x.mag

\* The f32 of a number; zero is +0.0.
ToF32(n) == [neg |-> n < 0, mag |-> Abs(n)]

\* f32::signum: 1.0 if the number is positive, +0.0 or INFINITY, -1.0 if it
\* is negative, -0.0 or NEG_INFINITY: the sign bit alone decides.
signum(x) == IF x.neg THEN -1 ELSE 1

\* f32::max and f32::min on numbers.
f32_max(a, b) == Max2(a, b)

f32_min(a, b) == Min2(a, b)

\* ------------------------------------------------------- Vector and Matrix
\* nalgebra's Vector3<f32> is a triple, Matrix3<f32> a triple of rows.
Vector_new(x, y, z) == <<x, y, z>>

Vector_zeros == <<0, 0, 0>>

Matrix_identity == <<<<1, 0, 0>>, <<0, 1, 0>>, <<0, 0, 1>>>>

Matrix_zeros == <<<<0, 0, 0>>, <<0, 0, 0>>, <<0, 0, 0>>>>

vadd(a, b) == <<a[1] + b[1], a[2] + b[2], a[3] + b[3]>>

vsub(a, b) == <<a[1] - b[1], a[2] - b[2], a[3] - b[3]>>

vneg(a) == <<-a[1], -a[2], -a[3]>>

vscale(k, a) == <<k * a[1], k * a[2], k * a[3]>>

dot(a, b) == a[1] * b[1] + a[2] * b[2] + a[3] * b[3]

cross(a, b) ==
    <<a[2] * b[3] - a[3] * b[2], a[3] * b[1] - a[1] * b[3], a[1] * b[2] - a[2] * b[1]>>

\* Matrix * Vector.
mvmul(m, v) == <<dot(m[1], v), dot(m[2], v), dot(m[3], v)>>

transpose(m) ==
    <<<<m[1][1], m[2][1], m[3][1]>>, <<m[1][2], m[2][2], m[3][2]>>,
      <<m[1][3], m[2][3], m[3][3]>>>>

\* Matrix * Matrix.
mmul(a, b) ==
    LET bt == transpose(b)
    IN <<<<dot(a[1], bt[1]), dot(a[1], bt[2]), dot(a[1], bt[3])>>,
         <<dot(a[2], bt[1]), dot(a[2], bt[2]), dot(a[2], bt[3])>>,
         <<dot(a[3], bt[1]), dot(a[3], bt[2]), dot(a[3], bt[3])>>>>

\* Vector::normalize, on the vectors whose length is an integer: those with
\* one non-zero component.  Any other vector is outside the model (no case).
normalize(v) ==
    CASE v[1] # 0 /\ v[2] = 0 /\ v[3] = 0 -> <<Sgn(v[1]), 0, 0>>
      [] v[1] = 0 /\ v[2] # 0 /\ v[3] = 0 -> <<0, Sgn(v[2]), 0>>
      [] v[1] = 0 /\ v[2] = 0 /\ v[3] # 0 -> <<0, 0, Sgn(v[3])>>

\* cos and sin of an angle counted in quarter turns.
cos(angle) == CASE angle % 4 = 0 -> 1 [] angle % 4 = 1 -> 0
                [] angle % 4 = 2 -> -1 [] angle % 4 = 3 -> 0

sin(angle) == CASE angle % 4 = 0 -> 0 [] angle % 4 = 1 -> 1
                [] angle % 4 = 2 -> 0 [] angle % 4 = 3 -> -1

rx(angle) == <<<<1, 0, 0>>, <<0, cos(angle), sin(angle)>>, <<0, -sin(angle), cos(angle)>>>>

ry(angle) == <<<<cos(angle), 0, -sin(angle)>>, <<0, 1, 0>>, <<sin(angle), 0, cos(angle)>>>>

rz(angle) == <<<<cos(angle), sin(angle), 0>>, <<-sin(angle), cos(angle), 0>>, <<0, 0, 1>>>>

\* ------------------------------------------------------------------- Xform
Xform_new(position, rotation) == [position |-> position, rotation |-> rotation]

Xform_identity == Xform_new(Vector_zeros, Matrix_identity)

inverse(x) == Xform_new(vneg(mvmul(x.rotation, x.position)), transpose(x.rotation))

Xform_rotx(angle) == Xform_new(Vector_zeros, rx(angle))

Xform_roty(angle) == Xform_new(Vector_zeros, ry(angle))

Xform_rotz(angle) == Xform_new(Vector_zeros, rz(angle))

Xform_posx(x) == Xform_new(<<x, 0, 0>>, Matrix_identity)

Xform_posy(y) == Xform_new(<<0, y, 0>>, Matrix_identity)

Xform_posz(z) == Xform_new(<<0, 0, z>>, Matrix_identity)

transform_point(x, point) == mvmul(x.rotation, vsub(point, x.position))

\* impl Mul<Xform> for Xform with rhs.rotation left untransposed.
Xform_mul_Xform_untransposed(self, rhs) ==
    Xform_new(vadd(rhs.position, mvmul(rhs.rotation, self.position)),
              mmul(self.rotation, rhs.rotation))

\* impl Mul<Xform> for Xform
Xform_mul_Xform(self, rhs) ==
    Xform_new(vadd(rhs.position, mvmul(transpose(rhs.rotation), self.position)),
              mmul(self.rotation, rhs.rotation))

\* ------------------------------------------------------- Motion and Force
Motion_new(v, w) == [v |-> v, w |-> w]

Motion_zero == Motion_new(Vector_zeros, Vector_zeros)

Force_new(f, m) == [f |-> f, m |-> m]

Force_zero == Force_new(Vector_zeros, Vector_zeros)

\* impl Mul<Motion> for Xform
Xform_mul_Motion(self, rhs) ==
    Motion_new(mvmul(self.rotation, vsub(rhs.v, cross(self.position, rhs.w))),
               mvmul(self.rotation, rhs.w))

\* impl Mul<Force> for Xform
Xform_mul_Force(self, rhs) ==
    Force_new(mvmul(self.rotation, rhs.f),
              mvmul(self.rotation, vsub(rhs.m, cross(self.position, rhs.f))))

\* impl Mul<Vector> for Xform
Xform_mul_Vector(self, rhs) == mvmul(self.rotation, rhs)

cross_v(self, rhs) ==
    Motion_new(vadd(cross(self.w, rhs.v), cross(self.v, rhs.w)), cross(self.w, rhs.w))

\* Motion::cross_f with the sign of the v x f term turned.
cross_f_minus(self, rhs) ==
    Force_new(cross(self.w, rhs.f), vsub(cross(self.w, rhs.m), cross(self.v, rhs.f)))

cross_f(self, rhs) ==
    Force_new(cross(self.w, rhs.f), vadd(cross(self.w, rhs.m), cross(self.v, rhs.f)))

\* Motion::velocity_point; the Velocity it returns is its vel field.
velocity_point(self, point) == [vel |-> vadd(cross(self.w, point), self.v)]

Motion_add(self, rhs) == Motion_new(vadd(self.v, rhs.v), vadd(self.w, rhs.w))

\* impl Mul<Motion> for f32
f32_mul_Motion(k, rhs) == Motion_new(vscale(k, rhs.v), vscale(k, rhs.w))

force_point(force, point) == Force_new(force, cross(point, force))

Force_add(self, rhs) == Force_new(vadd(self.f, rhs.f), vadd(self.m, rhs.m))

Force_sub(self, rhs) == Force_new(vsub(self.f, rhs.f), vsub(self.m, rhs.m))

\* The pairing of a motion with a force (their scalar product).
Motion_dot_Force(m, f) == dot(m.v, f.f) + dot(m.w, f.m)

\* ----------------------------------------------------------------- Inertia
Inertia_new(m, c, moi) == [m |-> m, c |-> c, moi |-> moi]

Inertia_zero == Inertia_new(0, Vector_zeros, Matrix_zeros)

Inertia_from_def(inertia_def) ==
    LET ca == inertia_def.center_of_mass
        moia == inertia_def.inertia
    IN Inertia_new(inertia_def.mass, <<ca[1], ca[2], ca[3]>>,
                   <<<<moia[1], moia[6], moia[5]>>,
                     <<moia[6], moia[2], moia[4]>>,
                     <<moia[5], moia[4], moia[3]>>>>)

\* impl Mul<Motion> for Inertia
Inertia_mul_Motion(self, rhs) ==
    Force_new(vsub(vscale(self.m, rhs.v), cross(self.c, rhs.w)),
              vadd(mvmul(self.moi, rhs.w), cross(self.c, rhs.v)))

\* --------------------------------------------------------------- InertiaAB
madd(a, b) == <<vadd(a[1], b[1]), vadd(a[2], b[2]), vadd(a[3], b[3])>>

msub(a, b) == <<vsub(a[1], b[1]), vsub(a[2], b[2]), vsub(a[3], b[3])>>

mscale(k, a) == <<vscale(k, a[1]), vscale(k, a[2]), vscale(k, a[3])>>

\* nalgebra's Vector3::cross_matrix: the matrix of v x _.
cross_matrix(v) == <<<<0, -v[3], v[2]>>, <<v[3], 0, -v[1]>>, <<-v[2], v[1], 0>>>>

\* column * row: a * b.transpose()
outer(a, b) == <<vscale(a[1], b), vscale(a[2], b), vscale(a[3], b)>>

InertiaAB_new(m, c, moi) == [m |-> m, c |-> c, moi |-> moi]

InertiaAB_default == InertiaAB_new(Matrix_zeros, Matrix_zeros, Matrix_zeros)

\* impl From<Inertia> for InertiaAB
InertiaAB_from(i) ==
    LET c_cross == cross_matrix(i.c)
    IN InertiaAB_new(mscale(i.m, Matrix_identity),
                     mscale(i.m, c_cross),
                     msub(i.moi, mscale(i.m, mmul(c_cross, c_cross))))

\* impl Mul<Motion> for InertiaAB
InertiaAB_mul_Motion(self, rhs) ==
    Force_new(vadd(mvmul(self.m, rhs.v), mvmul(transpose(self.c), rhs.w)),
              vadd(mvmul(self.moi, rhs.w), mvmul(self.c, rhs.v)))

InertiaAB_add(self, rhs) ==
    InertiaAB_new(madd(self.m, rhs.m), madd(self.c, rhs.c), madd(self.moi, rhs.moi))

InertiaAB_sub(self, rhs) ==
    InertiaAB_new(msub(self.m, rhs.m), msub(self.c, rhs.c), msub(self.moi, rhs.moi))

self_outer_product(self) ==
    InertiaAB_new(outer(self.f, self.f), outer(self.m, self.f), outer(self.m, self.m))

\* impl Mul<InertiaAB> for Xform
Xform_mul_InertiaAB(self, inertia) ==
    LET rot_m == self.rotation
        i_cross == cross_matrix(self.position)
        shifted == msub(inertia.c, mmul(i_cross, inertia.m))
    IN InertiaAB_new(
         mmul(mmul(rot_m, inertia.m), transpose(rot_m)),
         mmul(mmul(rot_m, shifted), transpose(rot_m)),
         mmul(mmul(rot_m, madd(msub(inertia.moi, mmul(i_cross, transpose(inertia.c))),
                               mmul(shifted, i_cross))),
              transpose(rot_m)))

\* ------------------------------------------------------ model description
\* serialize.rs: the seven joint kinds.
JointTypeDef == {"Base", "Px", "Py", "Pz", "Rx", "Ry", "Rz"}

TransformDef(position, quaternion) == [position |-> position, quaternion |-> quaternion]

InertiaDef(mass, center_of_mass, inertia) ==
    [mass |-> mass, center_of_mass |-> center_of_mass, inertia |-> inertia]

JointDef(name, joint_type, parent, transform, inertia, meshes) ==
    [name |-> name, joint_type |-> joint_type, parent |-> parent,
     transform |-> transform, inertia |-> inertia, meshes |-> meshes]

\* A SystemDef: system_type is the variant's tag, def its payload.
SystemDef(system_type, def) == [system_type |-> system_type, def |-> def]

ZERO_INERTIA == InertiaDef(0, <<0, 0, 0>>, <<0, 0, 0, 0, 0, 0>>)

ZERO_TRANSFORM == TransformDef(<<0, 0, 0>>, <<1, 0, 0, 0>>)

\* Xform::from_def: the position, and the rotation matrix of the normalized
\* quaternion <<w, i, j, k>>.  A quaternion along one axis normalizes to a
\* unit along that axis; any other is outside the model (no case).
quaternion_normalize(q) ==
    CASE q[1] # 0 /\ q[2] = 0 /\ q[3] = 0 /\ q[4] = 0 -> <<Sgn(q[1]), 0, 0, 0>>
      [] q[1] = 0 /\ q[2] # 0 /\ q[3] = 0 /\ q[4] = 0 -> <<0, Sgn(q[2]), 0, 0>>
      [] q[1] = 0 /\ q[2] = 0 /\ q[3] # 0 /\ q[4] = 0 -> <<0, 0, Sgn(q[3]), 0>>
      [] q[1] = 0 /\ q[2] = 0 /\ q[3] = 0 /\ q[4] # 0 -> <<0, 0, 0, Sgn(q[4])>>

to_rotation_matrix(q) ==
    LET w == q[1]
        i == q[2]
        j == q[3]
        k == q[4]
    IN <<<<w * w + i * i - j * j - k * k, 2 * (i * j - w * k), 2 * (i * k + w * j)>>,
         <<2 * (i * j + w * k), w * w - i * i + j * j - k * k, 2 * (j * k - w * i)>>,
         <<2 * (i * k - w * j), 2 * (j * k + w * i), w * w - i * i - j * j + k * k>>>>

Xform_from_def(transform_def) ==
    Xform_new(<<transform_def.position[1], transform_def.position[2],
                transform_def.position[3]>>,
              to_rotation_matrix(quaternion_normalize(transform_def.quaternion)))

\* ------------------------------------------------------------------- Joint
\* #[derive(Default)] for Joint: every number zero, every transform the
\* identity, the joint type Rx, the name empty.
Joint_default ==
    [joint_type |-> "Rx", name |-> "",
     s |-> Motion_zero, i |-> Inertia_zero, xt |-> Xform_identity,
     q |-> 0, qd |-> F32(FALSE, 0), qdd |-> 0,
     xl |-> Xform_identity, xj |-> Xform_identity, x |-> Xform_identity,
     v |-> Motion_zero, vj |-> Motion_zero, c |-> Motion_zero, a |-> Motion_zero,
     iaa |-> InertiaAB_default, paa |-> Force_zero, tau |-> 0, f_ext |-> Force_zero,
     dd |-> 0, u |-> 0, uu |-> Force_zero]

\* The motion subspace of a joint type (Joint::from_joint_def's match).
motion_subspace(joint_type) ==
    CASE joint_type = "Base" -> Motion_new(<<0, 0, 0>>, <<0, 0, 0>>)
      [] joint_type = "Rx" -> Motion_new(<<0, 0, 0>>, <<1, 0, 0>>)
      [] joint_type = "Ry" -> Motion_new(<<0, 0, 0>>, <<0, 1, 0>>)
      [] joint_type = "Rz" -> Motion_new(<<0, 0, 0>>, <<0, 0, 1>>)
      [] joint_type = "Px" -> Motion_new(<<1, 0, 0>>, <<0, 0, 0>>)
      [] joint_type = "Py" -> Motion_new(<<0, 1, 0>>, <<0, 0, 0>>)
      [] joint_type = "Pz" -> Motion_new(<<0, 0, 1>>, <<0, 0, 0>>)

\* Joint::from_joint_def: i, xt, s and joint_type come from the definition,
\* every other field (the name among them) is the default.
from_joint_def(joint_def) ==
    [Joint_default EXCEPT
       !.i = Inertia_from_def(joint_def.inertia),
       !.xt = Xform_from_def(joint_def.transform),
       !.s = motion_subspace(joint_def.joint_type),
       !.joint_type = joint_def.joint_type]

\* impl Stateful for Joint
get_state(self) == [q |-> self.q, qd |-> self.qd]

set_state(self, state) == [self EXCEPT !.q = state.q, !.qd = state.qd]

get_dstate(self) == [q |-> self.qd, qd |-> self.qdd]

reset_keeps_tau(self) == [self EXCEPT !.qdd = 0, !.f_ext = Force_zero]

reset(self) == [self EXCEPT !.qdd = 0, !.f_ext = Force_zero, !.tau = 0]

\* -------------------------------------------------------------- algorithms
\* The four update functions the traversal applies (crate::algorithms), from
\* the specification's description of the passes.  A quotient is rounded to
\* the model's grid.
Quot(a, b) == a \div b

vquot(v, d) == <<Quot(v[1], d), Quot(v[2], d), Quot(v[3], d)>>

mquot(m, d) == <<vquot(m[1], d), vquot(m[2], d), vquot(m[3], d)>>

\* The joint-displacement transform of q: a rotation about, or a translation
\* along, the joint's axis.
joint_displacement(joint_type, q) ==
    CASE joint_type = "Base" -> Xform_identity
      [] joint_type = "Rx" -> Xform_rotx(q)
      [] joint_type = "Ry" -> Xform_roty(q)
      [] joint_type = "Rz" -> Xform_rotz(q)
      [] joint_type = "Px" -> Xform_posx(q)
      [] joint_type = "Py" -> Xform_posy(q)
      [] joint_type = "Pz" -> Xform_posz(q)

\* Outward pass 1 (kinematics): pose, velocity and velocity-product term of
\* the joint from its parent's; the joint's own inertia in articulated-body
\* form and bias force, from which pass 2 starts.
loop_1_update(joint, parent) ==
    LET xj == joint_displacement(joint.joint_type, joint.q)
        xl == Xform_mul_Xform(xj, joint.xt)
        vj == f32_mul_Motion(Num(joint.qd), joint.s)
        v == Motion_add(Xform_mul_Motion(xl, parent.v), vj)
    IN [joint |-> [joint EXCEPT
                     !.xj = xj, !.xl = xl, !.x = Xform_mul_Xform(xl, parent.x),
                     !.vj = vj, !.v = v, !.c = cross_v(v, vj),
                     !.iaa = InertiaAB_from(joint.i),
                     !.paa = cross_f(v, Inertia_mul_Motion(joint.i, v))],
        parent |-> parent]

\* External-force resolution: the accumulated external force, given in
\* absolute coordinates, is folded into the joint's local bias force.
apply_external_update(joint, parent) ==
    [joint |-> [joint EXCEPT
                  !.paa = Force_sub(joint.paa, Xform_mul_Force(joint.x, joint.f_ext))],
     parent |-> parent]

\* Inward pass 2: the joint's own degree of freedom is resolved away and what
\* is left of its articulated-body inertia and bias force is added to its
\* parent's, shifted into the parent's frame.
loop_2_update(joint, parent) ==
    LET uu == InertiaAB_mul_Motion(joint.iaa, joint.s)
        dd == Motion_dot_Force(joint.s, uu)
        u == joint.tau - Motion_dot_Force(joint.s, joint.paa)
        op == self_outer_product(uu)
        ia == InertiaAB_sub(joint.iaa,
                InertiaAB_new(mquot(op.m, dd), mquot(op.c, dd), mquot(op.moi, dd)))
        iac == InertiaAB_mul_Motion(ia, joint.c)
        pa == Force_add(Force_add(joint.paa, iac),
                        Force_new(vquot(vscale(u, uu.f), dd), vquot(vscale(u, uu.m), dd)))
        up == inverse(joint.xl)
    IN [joint |-> [joint EXCEPT !.uu = uu, !.dd = dd, !.u = u],
        parent |-> [parent EXCEPT
                      !.iaa = InertiaAB_add(parent.iaa, Xform_mul_InertiaAB(up, ia)),
                      !.paa = Force_add(parent.paa, Xform_mul_Force(up, pa))]]

\* Outward pass 3: the joint's acceleration from its parent's.
loop_3_update(joint, parent) ==
    LET a_p == Motion_add(Xform_mul_Motion(joint.xl, parent.a), joint.c)
        qdd == Quot(joint.u - Motion_dot_Force(a_p, joint.uu), joint.dd)
    IN [joint |-> [joint EXCEPT
                     !.qdd = qdd, !.a = Motion_add(a_p, f32_mul_Motion(qdd, joint.s))],
        parent |-> parent]

\* A call of the update function named f.
apply_fn(f, joint, parent) ==
    CASE f = "loop_1_update" -> loop_1_update(joint, parent)
      [] f = "apply_external_update" -> apply_external_update(joint, parent)
      [] f = "loop_2_update" -> loop_2_update(joint, parent)
      [] f = "loop_3_update" -> loop_3_update(joint, parent)

\* ------------------------------------------------------- traversal engine
\* A world w is [joints, calls]: joints maps every entity that carries a
\* Joint component to its Joint, calls is the log of the update-function
\* calls made so far, each [f, joint, parent].  ch maps an entity to its
\* Children (the empty sequence when it has none).

\* joint_query.get_many_mut([parent, joint]) is Ok: both entities carry a
\* Joint and they are two entities.
get_many_mut_ok(w, parent_entity, joint_entity) ==
    /\ parent_entity \in DOMAIN w.joints
    /\ joint_entity \in DOMAIN w.joints
    /\ parent_entity # joint_entity

\* joint_children_query.get(entity) (Query<&Children, With<Joint>>): the
\* entity's children when it carries a Joint, nothing to loop over otherwise.
joint_children(w, ch, entity) == IF entity \in DOMAIN w.joints THEN ch[entity] ELSE <<>>

\* What a call leaves in the world: the two joints as the update function
\* left them (r), and the call in the log.
called(w, f, parent_entity, joint_entity, r) ==
    [joints |-> [w.joints EXCEPT ![joint_entity] = r.joint, ![parent_entity] = r.parent],
     calls |-> Append(w.calls, [f |-> f, joint |-> joint_entity, parent |-> parent_entity])]

\* match f { Some(f) => if let Ok([parent, mut joint]) = get_many_mut(..)
\* { f(&mut joint, ..parent) }, None => () }
call(w, f, parent_entity, joint_entity) ==
    IF f # None /\ get_many_mut_ok(w, parent_entity, joint_entity)
    THEN called(w, f, parent_entity, joint_entity,
                apply_fn(f, w.joints[joint_entity], w.joints[parent_entity]))
    ELSE w

\* recursive_loop with the for loop over the children left after the first child.
RECURSIVE recursive_loop_first_child_only(_, _, _, _, _, _)
first_child_only(w, ch, joint_entity, fn_out, fn_in) ==
    IF joint_children(w, ch, joint_entity) = <<>> THEN w
    ELSE recursive_loop_first_child_only(w, ch, joint_entity,
                                         joint_children(w, ch, joint_entity)[1],
                                         fn_out, fn_in)

recursive_loop_first_child_only(w, ch, parent_entity, joint_entity, fn_out, fn_in) ==
    call(first_child_only(call(w, fn_out, parent_entity, joint_entity),
                          ch, joint_entity, fn_out, fn_in),
         fn_in, parent_entity, joint_entity)

\* recursive_loop with fn_in called before the children are visited.
RECURSIVE recursive_loop_in_first(_, _, _, _, _, _)
RECURSIVE each_child_in_first(_, _, _, _, _, _)
recursive_loop_in_first(w, ch, parent_entity, joint_entity, fn_out, fn_in) ==
    each_child_in_first(call(call(w, fn_out, parent_entity, joint_entity),
                             fn_in, parent_entity, joint_entity),
                        ch, joint_entity, 1, fn_out, fn_in)

each_child_in_first(w, ch, joint_entity, k, fn_out, fn_in) ==
    IF k > Len(joint_children(w, ch, joint_entity)) THEN w
    ELSE each_child_in_first(
           recursive_loop_in_first(w, ch, joint_entity,
                                   joint_children(w, ch, joint_entity)[k], fn_out, fn_in),
           ch, joint_entity, k + 1, fn_out, fn_in)

\* recursive_loop with fn_out called after the children are visited.
RECURSIVE recursive_loop_out_last(_, _, _, _, _, _)
RECURSIVE each_child_out_last(_, _, _, _, _, _)
recursive_loop_out_last(w, ch, parent_entity, joint_entity, fn_out, fn_in) ==
    call(call(each_child_out_last(w, ch, joint_entity, 1, fn_out, fn_in),
              fn_out, parent_entity, joint_entity),
         fn_in, parent_entity, joint_entity)

each_child_out_last(w, ch, joint_entity, k, fn_out, fn_in) ==
    IF k > Len(joint_children(w, ch, joint_entity)) THEN w
    ELSE each_child_out_last(
           recursive_loop_out_last(w, ch, joint_entity,
                                   joint_children(w, ch, joint_entity)[k], fn_out, fn_in),
           ch, joint_entity, k + 1, fn_out, fn_in)

\* recursive_loop: fn_out on the joint, then the joint's children in order,
\* then fn_in on the joint.
RECURSIVE recursive_loop(_, _, _, _, _, _)
RECURSIVE each_child(_, _, _, _, _, _)
recursive_loop(w, ch, parent_entity, joint_entity, fn_out, fn_in) ==
    call(each_child(call(w, fn_out, parent_entity, joint_entity),
                    ch, joint_entity, 1, fn_out, fn_in),
         fn_in, parent_entity, joint_entity)

\* The for loop over a joint's children, ended by the first child that
\* carries no Joint.
each_child_until_mesh(w, ch, joint_entity, k, fn_out, fn_in) ==
    IF k > Len(joint_children(w, ch, joint_entity)) THEN w
    ELSE IF joint_children(w, ch, joint_entity)[k] \notin DOMAIN w.joints THEN w
    ELSE each_child(recursive_loop(w, ch, joint_entity,
                                   joint_children(w, ch, joint_entity)[k], fn_out, fn_in),
                    ch, joint_entity, k + 1, fn_out, fn_in)

\* The for loop over a joint's children, from the k-th on.
each_child(w, ch, joint_entity, k, fn_out, fn_in) ==
    IF k > Len(joint_children(w, ch, joint_entity)) THEN w
    ELSE each_child(recursive_loop(w, ch, joint_entity,
                                   joint_children(w, ch, joint_entity)[k], fn_out, fn_in),
                    ch, joint_entity, k + 1, fn_out, fn_in)

\* base_loop: for every Base entity in the query's order, for every child of
\* it, recursive_loop.  from is the index of the next base, k of its next child.
RECURSIVE base_loop_from(_, _, _, _, _, _, _)
base_loop_from(w, ch, base_query, b, k, fn_out, fn_in) ==
    IF b > Len(base_query) THEN w
    ELSE LET base_entity == base_query[b]
             kids == joint_children(w, ch, base_entity)
         IN IF k > Len(kids)
            THEN base_loop_from(w, ch, base_query, b + 1, 1, fn_out, fn_in)
            ELSE base_loop_from(recursive_loop(w, ch, base_entity, kids[k], fn_out, fn_in),
                                ch, base_query, b, k + 1, fn_out, fn_in)

\* base_loop without the first Base the query yields.
base_loop_skips_first(w, ch, base_query, fn_out, fn_in) ==
    base_loop_from(w, ch, base_query, 2, 1, fn_out, fn_in)

base_loop(w, ch, base_query, fn_out, fn_in) ==
    base_loop_from(w, ch, base_query, 1, 1, fn_out, fn_in)

\* The systems of structure.rs, as functions of the joints: each is one
\* base_loop, loop_23 two in a row.
loop_1(w, ch, base_query) == base_loop(w, ch, base_query, "loop_1_update", None)

apply_external_forces(w, ch, base_query) ==
    base_loop(w, ch, base_query, "apply_external_update", None)

loop_23(w, ch, base_query) ==
    base_loop(base_loop(w, ch, base_query, None, "loop_2_update"),
              ch, base_query, "loop_3_update", None)

\* ------------------------------------------------------------------- state
VARIABLES
    json,         \* the ModelDef that data/car.json holds
    invocation,   \* a function called on its own: [fn, args, locals, ret]
    joints,       \* entity -> Joint, for the entities that carry a Joint
    children,     \* entity -> its Children, in order (<<>> when it has none)
    base_query,   \* the entities that carry Base, in the order the query yields them
    components,   \* the force-model components: for each kind, entity -> its parameters
    control,      \* the CarControl resource
    keyboard,     \* the keys the keyboard held at the last user_control_system
    states,       \* the candidate state vector the integrator evaluates
    dstate,       \* the derivative read back by the last evaluation
    pc,           \* where the program is
    frames,       \* frames in which user_control_system ran
    evals,        \* dynamics evaluations begun
    calls,        \* the update-function calls of the current evaluation, in order
    ran,          \* the systems that have run in the current evaluation
    pre,          \* the joints as they were before the last pass (history)
    snap,         \* the joints as the force systems found them (history)
    writers       \* per joint, the systems that wrote tau and f_ext (history)

vars == <<json, invocation, joints, children, base_query, components, control, keyboard, states,
          dstate, pc, frames, evals, calls, ran, pre, snap, writers>>

\* No function is called on its own.
no_invocation == [fn |-> "", args |-> <<>>, locals |-> <<>>, ret |-> <<>>]

\* A ModelDef without joints and systems.
no_model == [name |-> "", joints |-> <<>>, systems |-> <<>>]

no_components ==
    [steering |-> <<>>, driven_wheel |-> <<>>, brake_wheel |-> <<>>,
     suspension |-> <<>>, tire_contact |-> <<>>, panicked |-> FALSE]

\* ------------------------------------------------------------ the car model
\* create_car_json.rs.  Quantities are on the model's grid: lengths in
\* quarter metres, angles in quarter turns, the control values in steps of
\* the keyboard's time constant, masses and rates in units that keep every
\* product an integer.  The joints, their types, parents and meshes and the
\* systems attached to them are the source's.
corner_names == <<"fl", "fr", "rl", "rr">>

MeshDef(mesh_type) == [mesh_type |-> mesh_type]

chassis_joint_def == <<"Px", "Py", "Pz", "Rz", "Ry", "Rx">>

chassis_name(i) ==
    CASE chassis_joint_def[i] = "Px" -> "chassis_px"
      [] chassis_joint_def[i] = "Py" -> "chassis_py"
      [] chassis_joint_def[i] = "Pz" -> "chassis_pz"
      [] chassis_joint_def[i] = "Rz" -> "chassis_rz"
      [] chassis_joint_def[i] = "Ry" -> "chassis_ry"
      [] chassis_joint_def[i] = "Rx" -> "chassis_rx"

\* chassis_joints: six joints in a chain below "base"; the last carries the
\* chassis' inertia and a box mesh.
chassis_joints ==
    LET chassis_dims == <<12, 5, 2>>
        chassis_mass == 120
        moi_xx == Quot(chassis_mass * (chassis_dims[2] * chassis_dims[2]
                                       + chassis_dims[3] * chassis_dims[3]), 12)
        moi_yy == Quot(chassis_mass * (chassis_dims[1] * chassis_dims[1]
                                       + chassis_dims[3] * chassis_dims[3]), 12)
        moi_zz == Quot(chassis_mass * (chassis_dims[1] * chassis_dims[1]
                                       + chassis_dims[2] * chassis_dims[2]), 12)
        chassis_inertia == InertiaDef(chassis_mass, <<0, 0, 0>>,
                                      <<moi_xx, moi_yy, moi_zz, 0, 0, 0>>)
    IN [i \in 1..6 |->
          JointDef(chassis_name(i), chassis_joint_def[i],
                   IF i = 1 THEN "base" ELSE chassis_name(i - 1),
                   ZERO_TRANSFORM,
                   IF i = 6 THEN chassis_inertia ELSE ZERO_INERTIA,
                   IF i = 6 THEN <<MeshDef("Box")>> ELSE <<>>)]

suspension_name(i) == "suspension_" \o corner_names[i]

steering_name(i) == "steering_" \o corner_names[i]

wheel_name(i) == "wheel_" \o corner_names[i]

\* suspension_joints: a Pz joint per corner below the chassis, each with a
\* Suspension system.
suspension_defs ==
    LET susp_positions == <<<<5, 3, -1>>, <<5, -3, -1>>, <<-5, 3, -1>>, <<-5, -3, -1>>>>
        susp_mass == 12
        susp_moi == Quot(2 * susp_mass * 1 * 1, 3)
        suspension_inertia == InertiaDef(susp_mass, <<0, 0, 0>>,
                                         <<susp_moi, susp_moi, susp_moi, 0, 0, 0>>)
        stiffness == 30
        damping == 6
    IN [i \in 1..4 |->
          [joint |-> JointDef(suspension_name(i), "Pz", chassis_name(6),
                              TransformDef(susp_positions[i], <<1, 0, 0, 0>>),
                              suspension_inertia, <<MeshDef("Box")>>),
           systems |-> <<SystemDef("Suspension",
                                   [joint |-> suspension_name(i),
                                    stiffness |-> stiffness, damping |-> damping])>>]]

\* steering_joints: an Rz joint below each front suspension, each with a
\* Steering system.
steering_defs ==
    [i \in 1..2 |->
       [joint |-> JointDef(steering_name(i), "Rz", suspension_name(i),
                           TransformDef(<<0, 0, 0>>, <<1, 0, 0, 0>>),
                           InertiaDef(0, <<0, 0, 0>>, <<0, 0, 0, 0, 0, 0>>), <<>>),
        systems |-> <<SystemDef("Steering",
                                [joint |-> steering_name(i), max_angle |-> 1])>>]]

\* The systems wheel_joints pushes for a wheel.
drive_def(i) ==
    SystemDef("Drive", [joint |-> wheel_name(i), max_torque |-> 4,
                        max_speed |-> 50, max_power |-> 1000])

brake_def(i) ==
    SystemDef("Brake", [joint |-> wheel_name(i), max_torque |-> IF i < 3 THEN 8 ELSE 4])

tire_contact_def(i) ==
    SystemDef("TireContact",
              [joint |-> wheel_name(i), radius |-> 1, stiffness |-> 60, damping |-> 10,
               longitudinal_stiffness |-> [num |-> 1, den |-> 5],
               lateral_stiffness |-> [num |-> 1, den |-> 2]])

\* wheel_systems with a drive system on the front wheels too.
wheel_systems_all_driven(i) == <<drive_def(i), brake_def(i), tire_contact_def(i)>>

\* A drive system for the rear wheels (corners 3 and 4), a brake system and
\* a tire contact system for all wheels.
wheel_systems(i) ==
    (IF i >= 3 THEN <<drive_def(i)>> ELSE <<>>) \o <<brake_def(i), tire_contact_def(i)>>

\* wheel_joints: an Ry joint per corner, below the steering joint in front
\* and below the suspension at the rear, with its systems.
wheel_defs ==
    LET wheel_mass == 12
        moi_xz == Quot(wheel_mass * (3 * 1 * 1), 12)
        moi_y == wheel_mass * 1 * 1
    IN [i \in 1..4 |->
          [joint |-> JointDef(wheel_name(i), "Ry",
                              IF i < 3 THEN steering_name(i) ELSE suspension_name(i),
                              TransformDef(<<0, 0, 0>>, <<1, 0, 0, 0>>),
                              InertiaDef(wheel_mass, <<0, 0, 0>>,
                                         <<moi_xz, moi_y, moi_xz, 0, 0, 0>>),
                              <<MeshDef("Cylinder")>>),
           systems |-> wheel_systems(i)]]

\* The systems of a sequence of [joint, systems] records, in order.
RECURSIVE systems_of(_)
systems_of(defs) ==
    IF defs = <<>> THEN <<>> ELSE defs[1].systems \o systems_of(Tail(defs))

\* car_json: the ModelDef written to data/car.json.
car_json ==
    [name |-> "car",
     joints |-> <<JointDef("base", "Base", None, ZERO_TRANSFORM, ZERO_INERTIA, <<>>)>>
                \o chassis_joints
                \o [i \in 1..4 |-> suspension_defs[i].joint]
                \o [i \in 1..2 |-> steering_defs[i].joint]
                \o [i \in 1..4 |-> wheel_defs[i].joint],
     systems |-> systems_of(suspension_defs) \o systems_of(steering_defs)
                 \o systems_of(wheel_defs)]

\* --------------------------------------------------------- build_from_json
\* The world under construction: joints maps each entity that carries a
\* Joint to it, children gives each entity's Children in insertion order,
\* base_query lists the entities with Base, joint_ids is the HashMap from
\* name to entity, panicked says that an expect or unwrap failed.
empty_world ==
    [joints |-> <<>>, children |-> <<>>, base_query |-> <<>>, joint_ids |-> <<>>,
     panicked |-> FALSE]

\* commands.spawn: the next entity, without children.
spawn(b) == [b EXCEPT !.children = Append(b.children, <<>>)]

\* set_parent: the entity joins the end of its parent's Children.
set_parent(b, entity, parent_id) ==
    [b EXCEPT !.children[parent_id] = Append(b.children[parent_id], entity)]

\* build_mesh: a new entity without a Joint, child of the joint.
RECURSIVE build_meshes(_, _, _)
build_meshes(b, joint_id, mesh_defs) ==
    IF mesh_defs = <<>> THEN b
    ELSE LET b1 == spawn(b)
         IN build_meshes(set_parent(b1, Len(b1.children), joint_id), joint_id,
                         Tail(mesh_defs))

\* One turn of build_joints' loop: the Joint from the definition (gravity on
\* a Base, the initial height on "chassis_pz"), spawned, Base inserted on a
\* Base, the name entered in joint_ids, then the parent looked up in
\* joint_ids (a panic when it is absent), then the meshes.
build_joint(b, joint_def) ==
    LET j0 == from_joint_def(joint_def)
        j1 == IF joint_def.joint_type = "Base"
              THEN [j0 EXCEPT !.a = Motion_new(<<0, 0, 10>>, <<0, 0, 0>>)] ELSE j0
        joint == IF joint_def.name = "chassis_pz" THEN [j1 EXCEPT !.q = 2] ELSE j1
        b1 == spawn(b)
        joint_id == Len(b1.children)
        b2 == [b1 EXCEPT
                 !.joints = (joint_id :> joint) @@ b1.joints,
                 !.base_query = IF joint_def.joint_type = "Base"
                                THEN Append(b1.base_query, joint_id) ELSE b1.base_query,
                 !.joint_ids = (joint_def.name :> joint_id) @@ b1.joint_ids]
    IN IF joint_def.parent = None
       THEN build_meshes(b2, joint_id, joint_def.meshes)
       ELSE IF joint_def.parent \in DOMAIN b2.joint_ids
            THEN build_meshes(set_parent(b2, joint_id, b2.joint_ids[joint_def.parent]),
                              joint_id, joint_def.meshes)
            ELSE [b2 EXCEPT !.panicked = TRUE]

RECURSIVE build_joints_from(_, _)
build_joints_from(b, joint_defs) ==
    IF joint_defs = <<>> \/ b.panicked THEN b
    ELSE build_joints_from(build_joint(b, joint_defs[1]), Tail(joint_defs))

build_joints(model) == build_joints_from(empty_world, model.joints)

\* The component a SystemDef inserts, by kind.
component_kind(system_type) ==
    CASE system_type = "Steering" -> "steering"
      [] system_type = "Drive" -> "driven_wheel"
      [] system_type = "Brake" -> "brake_wheel"
      [] system_type = "Suspension" -> "suspension"
      [] system_type = "TireContact" -> "tire_contact"

\* Steering::from_def, DrivenWheel::from_def, BrakeWheel::from_def,
\* Suspension::from_def, TireContact::from_def: the fields the component keeps.
from_def(system_def) ==
    LET d == system_def.def
    IN CASE system_def.system_type = "Steering" -> [max_angle |-> d.max_angle]
         [] system_def.system_type = "Drive" -> [max_torque |-> d.max_torque]
         [] system_def.system_type = "Brake" -> [max_torque |-> d.max_torque]
         [] system_def.system_type = "Suspension" ->
              [stiffness |-> d.stiffness, damping |-> d.damping]
         [] system_def.system_type = "TireContact" ->
              [radius |-> d.radius, stiffness |-> d.stiffness, damping |-> d.damping,
               longitudinal_stiffness |-> d.longitudinal_stiffness,
               lateral_stiffness |-> d.lateral_stiffness]

\* build_systems: each SystemDef inserts its component on the entity its
\* joint name maps to (a panic when the name is unknown); inserting a
\* component of a kind the entity has replaces it.
RECURSIVE build_systems(_, _, _)
build_systems(comps, system_defs, joint_ids) ==
    IF system_defs = <<>> THEN comps
    ELSE LET sd == system_defs[1]
             kind == component_kind(sd.system_type)
         IN IF sd.def.joint \in DOMAIN joint_ids
            THEN build_systems(
                   [comps EXCEPT ![kind] = (joint_ids[sd.def.joint] :> from_def(sd)) @@ @],
                   Tail(system_defs), joint_ids)
            ELSE [comps EXCEPT !.panicked = TRUE]

\* build_model: the joints, then the systems.
build_model(model) ==
    LET b == build_joints(model)
    IN [world |-> b,
        components |-> IF b.panicked THEN [no_components EXCEPT !.panicked = TRUE]
                       ELSE build_systems(no_components, model.systems, b.joint_ids)]

\* ------------------------------------------------------------ car/physics.rs
\* Each system visits the joints that carry its component; its effect on one
\* such joint is given first, the system second.

\* x times a parameter kept as the ratio num/den (0.2 is 1/5, 0.5 is 1/2).
mul_ratio(x, k) == Quot(x * k.num, k.den)

\* suspension_system without the damper.
suspension_joint_undamped(joint, suspension) ==
    [joint EXCEPT !.tau = @ - suspension.stiffness * joint.q]

\* suspension_system: tau -= stiffness * q + damping * qd
suspension_joint(joint, suspension) ==
    [joint EXCEPT !.tau = @ - (suspension.stiffness * joint.q
                               + suspension.damping * Num(joint.qd))]

\* The ground-plane force left as computed.
saturate_not(force, vertical_force) == force

\* force.max(-vertical_force).min(vertical_force)
saturate(force, vertical_force) == f32_min(f32_max(force, -vertical_force), vertical_force)

\* let spring_force = contact.stiffness * deflection, with the deflection
\* left out.
spring_force_stiff(contact, deflection) == contact.stiffness * contact.radius

\* let spring_force = contact.stiffness * deflection
spring_force(contact, deflection) == contact.stiffness * deflection

\* tire_contact_system.  A wheel whose axis is vertical has no lateral
\* direction on the ground: the normalized vectors are NaN, so is the
\* deflection, and deflection > 0. is false.
tire_contact_force(joint, contact) ==
    LET x0 == inverse(joint.x)
        tire_point_abs == transform_point(x0, Vector_new(0, 0, 0))
        tire_lat_local == Vector_new(0, 1, 0)
        tire_lat_abs == Xform_mul_Vector(x0, tire_lat_local)
        contact_lat_abs == normalize(Vector_new(tire_lat_abs[1], tire_lat_abs[2], 0))
        contact_up_abs == Vector_new(0, 0, 1)
        contact_forward_abs == normalize(cross(contact_lat_abs, contact_up_abs))
        tire_up_abs == normalize(cross(contact_forward_abs, tire_lat_abs))
        height == Quot(tire_point_abs[3], tire_up_abs[3])
        contact_point_abs == vsub(tire_point_abs, vscale(height, tire_up_abs))
        deflection == contact.radius - height
        v0 == Xform_mul_Motion(x0, joint.v)
        vel_abs == velocity_point(v0, contact_point_abs)
        damping_force == -contact.damping * dot(tire_up_abs, vel_abs.vel)
        vertical_force == spring_force(contact, deflection) + damping_force
        forward_vel == dot(vel_abs.vel, contact_forward_abs)
        lat_vel == dot(vel_abs.vel, contact_lat_abs)
        forward_force == saturate(mul_ratio(-forward_vel * vertical_force,
                                            contact.longitudinal_stiffness),
                                  vertical_force)
        lat_force == saturate(mul_ratio(-lat_vel * vertical_force,
                                        contact.lateral_stiffness),
                              vertical_force)
    IN IF tire_lat_abs[1] = 0 /\ tire_lat_abs[2] = 0
       THEN [applied |-> FALSE]
       ELSE [applied |-> deflection > 0,
             vertical_force |-> vertical_force,
             forward_force |-> forward_force,
             lat_force |-> lat_force,
             forward_vel |-> forward_vel,
             lat_vel |-> lat_vel,
             contact_forward_abs |-> contact_forward_abs,
             contact_lat_abs |-> contact_lat_abs,
             f_abs |-> force_point(
                         vadd(vadd(vscale(forward_force, contact_forward_abs),
                                   vscale(lat_force, contact_lat_abs)),
                              Vector_new(0, 0, vertical_force)),
                         contact_point_abs)]

\* tire_contact_system with the force applied at grazing contact too
\* (deflection >= 0.).
tire_contact_joint_grazing(joint, contact) ==
    LET t == tire_contact_force(joint, contact)
    IN IF transform_point(inverse(joint.x), Vector_new(0, 0, 0))[3] <= contact.radius
       THEN [joint EXCEPT !.f_ext = Force_add(@, t.f_abs)] ELSE joint

tire_contact_joint(joint, contact) ==
    LET t == tire_contact_force(joint, contact)
    IN IF t.applied THEN [joint EXCEPT !.f_ext = Force_add(@, t.f_abs)] ELSE joint

\* steering_system with the angle added to q.
steering_joint_added(joint, steering, ctl) ==
    [joint EXCEPT !.q = @ + ctl.steering * steering.max_angle]

\* steering_system: q = control.steering * max_angle
steering_joint(joint, steering, ctl) ==
    [joint EXCEPT !.q = ctl.steering * steering.max_angle]

\* driven_wheel_system with the torque cut off once the wheel turns.
driven_wheel_joint_limited(joint, driven_wheel, ctl) ==
    [joint EXCEPT !.tau = @ + IF Abs(Num(joint.qd)) >= 2 THEN 0
                              ELSE ctl.throttle * driven_wheel.max_torque]

\* driven_wheel_system: tau += control.throttle * max_torque
driven_wheel_joint(joint, driven_wheel, ctl) ==
    [joint EXCEPT !.tau = @ + ctl.throttle * driven_wheel.max_torque]

\* brake_wheel_system with tau assigned, not added to.
brake_wheel_joint_assign(joint, brake_wheel, ctl) ==
    [joint EXCEPT !.tau = -ctl.brake * brake_wheel.max_torque * signum(joint.qd)]

\* brake_wheel_system with the torque along qd.
brake_wheel_joint_along(joint, brake_wheel, ctl) ==
    [joint EXCEPT !.tau = @ + ctl.brake * brake_wheel.max_torque * signum(joint.qd)]

\* brake_wheel_system: tau += -control.brake * max_torque * qd.signum()
brake_wheel_joint(joint, brake_wheel, ctl) ==
    [joint EXCEPT !.tau = @ + (-ctl.brake * brake_wheel.max_torque * signum(joint.qd))]

\* The joints after the system named sys has visited every joint that
\* carries its component.
suspension_system(js, comps) ==
    [e \in DOMAIN js |-> IF e \in DOMAIN comps.suspension
                         THEN suspension_joint(js[e], comps.suspension[e]) ELSE js[e]]

tire_contact_system(js, comps) ==
    [e \in DOMAIN js |-> IF e \in DOMAIN comps.tire_contact
                         THEN tire_contact_joint(js[e], comps.tire_contact[e]) ELSE js[e]]

steering_system(js, comps, ctl) ==
    [e \in DOMAIN js |-> IF e \in DOMAIN comps.steering
                         THEN steering_joint(js[e], comps.steering[e], ctl) ELSE js[e]]

driven_wheel_system(js, comps, ctl) ==
    [e \in DOMAIN js |-> IF e \in DOMAIN comps.driven_wheel
                         THEN driven_wheel_joint(js[e], comps.driven_wheel[e], ctl)
                         ELSE js[e]]

brake_wheel_system(js, comps, ctl) ==
    [e \in DOMAIN js |-> IF e \in DOMAIN comps.brake_wheel
                         THEN brake_wheel_joint(js[e], comps.brake_wheel[e], ctl)
                         ELSE js[e]]

\* The four systems of the schedule's middle group, by name.
force_system(sys, js, comps, ctl) ==
    CASE sys = "suspension_system" -> suspension_system(js, comps)
      [] sys = "tire_contact_system" -> tire_contact_system(js, comps)
      [] sys = "driven_wheel_system" -> driven_wheel_system(js, comps, ctl)
      [] sys = "brake_wheel_system" -> brake_wheel_system(js, comps, ctl)

\* The joints a system writes tau of, and those it writes f_ext of.
tau_written(sys, js, comps) ==
    CASE sys = "suspension_system" -> DOMAIN comps.suspension \cap DOMAIN js
      [] sys = "driven_wheel_system" -> DOMAIN comps.driven_wheel \cap DOMAIN js
      [] sys = "brake_wheel_system" -> DOMAIN comps.brake_wheel \cap DOMAIN js
      [] OTHER -> {}

f_ext_written(sys, js, comps) ==
    IF sys = "tire_contact_system"
    THEN {e \in DOMAIN comps.tire_contact \cap DOMAIN js :
            tire_contact_force(js[e], comps.tire_contact[e]).applied}
    ELSE {}

\* ------------------------------------------------------------- the schedule
\* create_physics_schedule with loop_1 chained before steering_system.
create_physics_schedule_loop_1_first ==
    [pre |-> <<"loop_1", "steering_system">>,
     physics |-> {"suspension_system", "tire_contact_system", "driven_wheel_system",
                  "brake_wheel_system"},
     post |-> <<"apply_external_forces", "loop_23">>]

\* create_physics_schedule: the three groups handed to add_physics_systems.
\* A chained group is a sequence, the unchained one a set.
create_physics_schedule ==
    [pre |-> <<"steering_system", "loop_1">>,
     physics |-> {"suspension_system", "tire_contact_system", "driven_wheel_system",
                  "brake_wheel_system"},
     post |-> <<"apply_external_forces", "loop_23">>]

Range(s) == {s[i] : i \in 1..Len(s)}

\* Every system of the chain before position i has run.
chain_ran(chain, i) == \A k \in 1..(i - 1) : chain[k] \in ran

\* add_physics_systems (bevy_integrator): the first group runs before the
\* second, the second before the third; within a chained group each system
\* waits for the one before it; no system runs twice in one evaluation.
Runnable(sys) ==
    LET sch == create_physics_schedule
    IN /\ pc = "schedule"
       /\ sys \notin ran
       /\ \/ \E i \in 1..Len(sch.pre) : sch.pre[i] = sys /\ chain_ran(sch.pre, i)
          \/ /\ sys \in sch.physics
             /\ Range(sch.pre) \subseteq ran
          \/ /\ \E i \in 1..Len(sch.post) : sch.post[i] = sys /\ chain_ran(sch.post, i)
             /\ Range(sch.pre) \cup sch.physics \subseteq ran

AllSystems ==
    Range(create_physics_schedule.pre) \cup create_physics_schedule.physics
    \cup Range(create_physics_schedule.post)

\* ------------------------------------------------------------------ state.rs
\* joint_query iterates the joints in the order of their entities; the
\* position of a joint in that order:
joint_ind(js, e) == Cardinality({k \in DOMAIN js : k <= e})

set_model_state(js, st) == [e \in DOMAIN js |-> set_state(js[e], st[joint_ind(js, e)])]

get_model_state(js) ==
    [i \in 1..Cardinality(DOMAIN js) |->
       get_state(js[CHOOSE e \in DOMAIN js : joint_ind(js, e) = i])]

\* get_model_dstate with the joints read in the opposite order.
get_model_dstate_reversed(js) ==
    [i \in 1..Cardinality(DOMAIN js) |->
       get_dstate(js[CHOOSE e \in DOMAIN js :
                       joint_ind(js, e) = Cardinality(DOMAIN js) + 1 - i])]

get_model_dstate(js) ==
    [i \in 1..Cardinality(DOMAIN js) |->
       get_dstate(js[CHOOSE e \in DOMAIN js : joint_ind(js, e) = i])]

\* ------------------------------------------------- structure.rs: all_loops
\* What all_loops leaves and returns, given the world after its last pass.
all_loops_return(w) ==
    [joints |-> w.joints, calls |-> w.calls, dstate |-> get_model_dstate(w.joints)]

\* all_loops with every joint reset once the state is written.
all_loops_reset(js, ch, bq, st) ==
    all_loops_return(
      base_loop(
        base_loop(
          base_loop([joints |-> [e \in DOMAIN js |-> reset(set_model_state(js, st)[e])],
                     calls |-> <<>>],
                    ch, bq, "loop_1_update", None),
          ch, bq, None, "loop_2_update"),
        ch, bq, "loop_3_update", None))

\* all_loops: set_model_state, then base_loop with loop_1_update outward,
\* with loop_2_update inward and with loop_3_update outward, then
\* get_model_dstate.
all_loops(js, ch, bq, st) ==
    all_loops_return(
      base_loop(
        base_loop(
          base_loop([joints |-> set_model_state(js, st), calls |-> <<>>],
                    ch, bq, "loop_1_update", None),
          ch, bq, None, "loop_2_update"),
        ch, bq, "loop_3_update", None))

\* ----------------------------------------------------------- the integrator
\* The k-th candidate state the integrator may hand to an evaluation: a q and
\* a qd for the i-th joint, by its type.  The chassis is at wheel-centre
\* height 1 or 2 above the ground, turned about z only; velocities are -1, 0
\* (as +0.0) or 1, the forward velocity of the chassis k.
candidate_state(k, i, joint_type) ==
    [q |-> CASE joint_type = "Pz" -> IF i = 4 THEN 2 - (k % 2) ELSE (k + i) % 2
             [] joint_type = "Px" -> k
             [] joint_type = "Rz" -> k % 4
             [] joint_type = "Ry" -> IF i = 6 THEN 0 ELSE (k + i) % 4
             [] OTHER -> 0,
     qd |-> IF joint_type = "Px" THEN ToF32(k) ELSE ToF32(((k + i) % 3) - 1)]

candidate_states(k, js) ==
    [i \in 1..Cardinality(DOMAIN js) |->
       candidate_state(k, i, js[CHOOSE e \in DOMAIN js : joint_ind(js, e) = i].joint_type)]

\* ---------------------------------------------- drawn forests (traversal)
\* The orders a set can be listed in.
SeqsOf(S) == {s \in [1..Cardinality(S) -> S] : \A i, j \in 1..Cardinality(S) : s[i] = s[j] => i = j}

\* A forest shape over the entities 1..n: parent[e] is an earlier entity or 0
\* (none); kind[e] says what the entity carries: "Base" (a Joint and Base, a
\* root), "Joint" (a Joint) or "Mesh" (no Joint: a visual child of a joint,
\* itself childless).
ForestShapes(n) ==
    {f \in [parent : [1..n -> 0..(n - 1)], kind : [1..n -> {"Base", "Joint", "Mesh"}]] :
        /\ f.kind[1] = "Base"
        /\ \A e \in 1..n :
             /\ f.parent[e] < e
             /\ f.kind[e] = "Base" => f.parent[e] = 0
             /\ f.kind[e] = "Mesh" =>
                  /\ f.parent[e] # 0
                  /\ f.kind[f.parent[e]] # "Mesh"
             /\ f.kind[e] = "Joint" /\ f.parent[e] # 0 => f.kind[f.parent[e]] # "Mesh"}

\* Every way to order the children lists of a forest shape: a sequence whose
\* e-th entry is one order of e's children.
RECURSIVE ChildOrders(_, _)
ChildOrders(parent, e) ==
    IF e = 0 THEN {<<>>}
    ELSE {Append(p, s) : p \in ChildOrders(parent, e - 1),
                         s \in SeqsOf({k \in DOMAIN parent : parent[k] = e})}

\* The joint types the drawn joints cycle through.
drawn_types == <<"Pz", "Rz", "Px", "Ry", "Py", "Rx">>

\* The Joint of entity e in a drawn forest: a root carries Joint::base with
\* the gravity acceleration; any other joint has a type, an offset, an
\* inertia, a state and a generalized force that vary with e.
drawn_joint(kind, e) ==
    IF kind = "Base"
    THEN [Joint_default EXCEPT !.a = Motion_new(<<0, 0, 10>>, <<0, 0, 0>>),
                               !.joint_type = "Base"]
    ELSE [from_joint_def(
            JointDef("", drawn_types[(e % 6) + 1], None,
                     TransformDef(<<e, 1, 0>>, <<1, 0, 0, 0>>),
                     InertiaDef(e, <<0, 0, 0>>, <<e, e + 1, e + 2, 0, 0, 0>>),
                     <<>>))
          EXCEPT !.q = e % 3, !.qd = ToF32((e % 3) - 1), !.tau = e - 2]

InitTraverse ==
    \E f \in ForestShapes(MaxEntities) :
      \E ch \in ChildOrders(f.parent, MaxEntities) :
        \E bq \in SeqsOf({e \in 1..MaxEntities : f.kind[e] = "Base"}) :
          /\ joints = [e \in {k \in 1..MaxEntities : f.kind[k] # "Mesh"} |->
                         drawn_joint(f.kind[e], e)]
          /\ json = no_model
          /\ children = ch
          /\ base_query = bq
          /\ components = no_components
          /\ control = [throttle |-> 0, steering |-> 0, brake |-> 0]
          /\ keyboard = {}
          /\ invocation = no_invocation
          /\ states = <<>>
          /\ dstate = <<>>
          /\ pc = "t_loop_1"
          /\ frames = 0
          /\ evals = 0
          /\ calls = <<>>
          /\ ran = {}
          /\ pre = joints
          /\ snap = joints
          /\ writers = [e \in {k \in 1..MaxEntities : f.kind[k] # "Mesh"} |->
                          [tau |-> {}, f_ext |-> {}]]

\* One traversal system run on the whole forest: the joints and the call log
\* it leaves, the joints before it kept in pre.
run_pass(w) ==
    /\ pre' = joints
    /\ joints' = w.joints
    /\ calls' = w.calls

world == [joints |-> joints, calls |-> <<>>]

t_loop_1 ==
    /\ pc = "t_loop_1"
    /\ run_pass(loop_1(world, children, base_query))
    /\ pc' = "t_apply_external_forces"
    /\ ran' = ran \cup {"loop_1"}
    /\ UNCHANGED <<json, invocation, keyboard, children, base_query, components,
                   control, states, dstate, frames, evals, snap, writers>>

t_apply_external_forces ==
    /\ pc = "t_apply_external_forces"
    /\ run_pass(apply_external_forces(world, children, base_query))
    /\ pc' = "t_loop_23"
    /\ ran' = ran \cup {"apply_external_forces"}
    /\ UNCHANGED <<json, invocation, keyboard, children, base_query, components,
                   control, states, dstate, frames, evals, snap, writers>>

t_loop_23 ==
    /\ pc = "t_loop_23"
    /\ run_pass(loop_23(world, children, base_query))
    /\ pc' = "t_done"
    /\ ran' = ran \cup {"loop_23"}
    /\ UNCHANGED <<json, invocation, keyboard, children, base_query, components,
                   control, states, dstate, frames, evals, snap, writers>>

\* all_loops has returned r for the states st.
all_loops_returned(st, r) ==
    /\ states' = st
    /\ pre' = joints
    /\ joints' = r.joints
    /\ calls' = r.calls
    /\ dstate' = r.dstate
    /\ pc' = "all_loops"
    /\ ran' = {"all_loops"}
    /\ UNCHANGED <<json, invocation, keyboard, children, base_query, components,
                   control, frames, evals, snap, writers>>

\* all_loops called on the drawn forest with a candidate state vector.
t_all_loops ==
    /\ pc = "t_loop_1"
    /\ \E k \in 1..MaxStateChoice :
         all_loops_returned(candidate_states(k, joints),
                            all_loops(joints, children, base_query,
                                      candidate_states(k, joints)))

NextTraverse == t_loop_1 \/ t_apply_external_forces \/ t_loop_23 \/ t_all_loops

\* The traversal systems of structure.rs, run in their order on a drawn forest.
SpecTraverse == InitTraverse /\ [][NextTraverse]_vars

\* ------------------------------------------------------------ control.rs
\* 1.0 in steps of time_constant = 1. / (response_time * 60.)
control_one == 15

\* What a connected gamepad may read: both triggers pulled and the stick
\* hard to one side, or everything released.
PadReadings ==
    {[right_trigger |-> control_one, left_trigger |-> control_one,
      left_stick_x |-> control_one],
     [right_trigger |-> 0, left_trigger |-> 0, left_stick_x |-> 0]}

Keys == {"W", "S", "A", "D"}

\* user_control_system with the throttle's upper clamp left out.
user_control_unclamped(ctl, pads, pressed) ==
    LET pad == pads[Len(pads)]
        g == IF pads = <<>> THEN ctl
             ELSE [throttle |-> pad.right_trigger, brake |-> pad.left_trigger,
                   steering |-> -pad.left_stick_x]
        throttle == IF "W" \in pressed THEN g.throttle + 1
                    ELSE f32_max(g.throttle - 1, 0)
        brake == IF "S" \in pressed THEN f32_min(g.brake + 1, control_one)
                 ELSE f32_max(g.brake - 1, 0)
        s1 == IF "A" \in pressed THEN f32_min(g.steering + 1, control_one) ELSE g.steering
        s2 == IF "D" \in pressed THEN f32_max(s1 - 1, -control_one) ELSE s1
        steer_active == "A" \in pressed \/ "D" \in pressed
        steering == IF steer_active THEN s2
                    ELSE IF Abs(s2) < 1 THEN 0
                    ELSE IF s2 > 0 THEN s2 - 1 ELSE s2 + 1
    IN [throttle |-> throttle, steering |-> steering, brake |-> brake]

\* user_control_system without the branch that sets a steering below one
\* step to 0.
user_control_no_deadband(ctl, pads, pressed) ==
    LET pad == pads[Len(pads)]
        g == IF pads = <<>> THEN ctl
             ELSE [throttle |-> pad.right_trigger, brake |-> pad.left_trigger,
                   steering |-> -pad.left_stick_x]
        throttle == IF "W" \in pressed THEN f32_min(g.throttle + 1, control_one)
                    ELSE f32_max(g.throttle - 1, 0)
        brake == IF "S" \in pressed THEN f32_min(g.brake + 1, control_one)
                 ELSE f32_max(g.brake - 1, 0)
        s1 == IF "A" \in pressed THEN f32_min(g.steering + 1, control_one) ELSE g.steering
        s2 == IF "D" \in pressed THEN f32_max(s1 - 1, -control_one) ELSE s1
        steer_active == "A" \in pressed \/ "D" \in pressed
        steering == IF steer_active THEN s2
                    ELSE IF s2 > 0 THEN s2 - 1 ELSE s2 + 1
    IN [throttle |-> throttle, steering |-> steering, brake |-> brake]

\* user_control_system: the readings of the last connected gamepad, then
\* the keyboard's rate-limited steps, clamped to [0, 1] and [-1, 1].
user_control(ctl, pads, pressed) ==
    LET pad == pads[Len(pads)]
        g == IF pads = <<>> THEN ctl
             ELSE [throttle |-> pad.right_trigger, brake |-> pad.left_trigger,
                   steering |-> -pad.left_stick_x]
        throttle == IF "W" \in pressed THEN f32_min(g.throttle + 1, control_one)
                    ELSE f32_max(g.throttle - 1, 0)
        brake == IF "S" \in pressed THEN f32_min(g.brake + 1, control_one)
                 ELSE f32_max(g.brake - 1, 0)
        s1 == IF "A" \in pressed THEN f32_min(g.steering + 1, control_one) ELSE g.steering
        s2 == IF "D" \in pressed THEN f32_max(s1 - 1, -control_one) ELSE s1
        steer_active == "A" \in pressed \/ "D" \in pressed
        steering == IF steer_active THEN s2
                    ELSE IF Abs(s2) < 1 THEN 0
                    ELSE IF s2 > 0 THEN s2 - 1 ELSE s2 + 1
    IN [throttle |-> throttle, steering |-> steering, brake |-> brake]

\* ---------------------------------------------------------------- the car
\* After setup_system: the car built from car_json, the control at its
\* default, no evaluation under way.
Init ==
    LET m == build_model(car_json)
    IN /\ json = car_json
       /\ joints = m.world.joints
       /\ children = m.world.children
       /\ base_query = m.world.base_query
       /\ components = m.components
       /\ control = [throttle |-> 0, steering |-> 0, brake |-> 0]
       /\ keyboard = {}
       /\ invocation = no_invocation
       /\ states = <<>>
       /\ dstate = <<>>
       /\ pc = "idle"
       /\ frames = 0
       /\ evals = 0
       /\ calls = <<>>
       /\ ran = {}
       /\ pre = joints
       /\ snap = joints
       /\ writers = [e \in DOMAIN m.world.joints |-> [tau |-> {}, f_ext |-> {}]]

\* A frame's user_control_system, between evaluations.
user_control_system ==
    /\ pc = "idle"
    /\ frames < MaxFrames
    /\ \E pads \in {<<>>} \cup {<<p>> : p \in PadReadings} : \E pressed \in SUBSET Keys :
         /\ control' = user_control(control, pads, pressed)
         /\ keyboard' = pressed
    /\ frames' = frames + 1
    /\ UNCHANGED <<json, invocation, joints, children, base_query, components, states,
                   dstate, pc, evals, calls, ran, pre, snap, writers>>

\* The integrator begins a dynamics evaluation: it writes a candidate state
\* into every joint and resets every joint.
evaluate_begin ==
    /\ pc = "idle"
    /\ evals < MaxEvals
    /\ \E k \in 1..MaxStateChoice :
         /\ states' = candidate_states(k, joints)
         /\ joints' = [e \in DOMAIN joints |-> reset(set_model_state(joints, states')[e])]
    /\ pre' = joints
    /\ snap' = joints'
    /\ pc' = "schedule"
    /\ evals' = evals + 1
    /\ ran' = {}
    /\ calls' = <<>>
    /\ writers' = [e \in DOMAIN joints |-> [tau |-> {}, f_ext |-> {}]]
    /\ UNCHANGED <<json, invocation, keyboard, children, base_query, components,
                   control, dstate, frames>>

run_steering_system ==
    /\ Runnable("steering_system")
    /\ joints' = steering_system(joints, components, control)
    /\ ran' = ran \cup {"steering_system"}
    /\ UNCHANGED <<json, invocation, keyboard, children, base_query, components,
                   control, states, dstate, pc, frames, evals, calls, pre, snap,
                   writers>>

\* A traversal system of the schedule: the joints it leaves, its calls added
\* to the evaluation's log; loop_1 leaves the joints the force systems start from.
run_traversal(sys, w) ==
    /\ Runnable(sys)
    /\ joints' = w.joints
    /\ calls' = calls \o w.calls
    /\ ran' = ran \cup {sys}
    /\ snap' = IF sys = "loop_1" THEN w.joints ELSE snap
    /\ UNCHANGED <<json, invocation, keyboard, children, base_query, components,
                   control, states, dstate, pc, frames, evals, pre, writers>>

run_loop_1 == run_traversal("loop_1", loop_1(world, children, base_query))

run_apply_external_forces ==
    run_traversal("apply_external_forces", apply_external_forces(world, children, base_query))

run_loop_23 == run_traversal("loop_23", loop_23(world, children, base_query))

\* One of the four unchained systems.
run_force_system(sys) ==
    /\ Runnable(sys)
    /\ joints' = force_system(sys, joints, components, control)
    /\ ran' = ran \cup {sys}
    /\ writers' = [e \in DOMAIN joints |->
                     [tau |-> writers[e].tau
                                \cup IF e \in tau_written(sys, joints, components)
                                     THEN {sys} ELSE {},
                      f_ext |-> writers[e].f_ext
                                  \cup IF e \in f_ext_written(sys, joints, components)
                                       THEN {sys} ELSE {}]]
    /\ UNCHANGED <<json, invocation, keyboard, children, base_query, components,
                   control, states, dstate, pc, frames, evals, calls, pre, snap>>

run_suspension_system == run_force_system("suspension_system")

run_tire_contact_system == run_force_system("tire_contact_system")

run_driven_wheel_system == run_force_system("driven_wheel_system")

run_brake_wheel_system == run_force_system("brake_wheel_system")

\* The schedule has run: the integrator reads the derivative back.
evaluate_end ==
    /\ pc = "schedule"
    /\ AllSystems \subseteq ran
    /\ dstate' = get_model_dstate(joints)
    /\ pc' = "idle"
    /\ UNCHANGED <<json, invocation, keyboard, joints, children, base_query, components,
                   control, states, frames, evals, calls, ran, pre, snap, writers>>

Next ==
    \/ user_control_system
    \/ evaluate_begin
    \/ run_steering_system
    \/ run_loop_1
    \/ run_suspension_system
    \/ run_tire_contact_system
    \/ run_driven_wheel_system
    \/ run_brake_wheel_system
    \/ run_apply_external_forces
    \/ run_loop_23
    \/ evaluate_end

Spec == Init /\ [][Next]_vars

\* ------------------------------------------------- one joint, one system
\* A world of one joint that carries every component, in a drawn state, on
\* which one of the five systems of car/physics.rs runs.
drawn_components(max_torque, limits) ==
    [steering |-> (1 :> [max_angle |-> 1]),
     driven_wheel |-> (1 :> from_def(SystemDef("Drive",
                                               [joint |-> "wheel", max_torque |-> 4,
                                                max_speed |-> limits.max_speed,
                                                max_power |-> limits.max_power]))),
     brake_wheel |-> (1 :> [max_torque |-> max_torque]),
     suspension |-> (1 :> [stiffness |-> 30, damping |-> 6]),
     tire_contact |-> (1 :> [radius |-> 1, stiffness |-> 10, damping |-> 10,
                             longitudinal_stiffness |-> [num |-> 1, den |-> 5],
                             lateral_stiffness |-> [num |-> 1, den |-> 2]]),
     panicked |-> FALSE]

\* The speed and power limits a DrivenWheelDef may declare: far above what
\* the drawn wheel reaches, or below it.
DeclaredLimits ==
    {[max_speed |-> 50, max_power |-> 1000], [max_speed |-> 1, max_power |-> 1]}

\* Either a joint at a drawn position q and velocity qd (each sign bit with
\* each magnitude, so +0.0 and -0.0 too) with a drawn generalized force,
\* under a drawn control, brake torque and declared drive limits, or a wheel
\* at a drawn height, heading, velocity and spin that carries a drawn
\* external force.
InitForce ==
    /\ \/ \E neg \in BOOLEAN : \E mag \in 0..MaxMag : \E q \in 0..1 :
          \E max_torque \in {0, 4, 8} : \E tau \in {0, 3} : \E limits \in DeclaredLimits :
          \E ctl \in [throttle : {0, control_one}, brake : {0, 1, control_one},
                      steering : {-1, 1}] :
            /\ joints = (1 :> [Joint_default EXCEPT !.joint_type = "Ry",
                                                    !.q = q, !.qd = F32(neg, mag),
                                                    !.tau = tau])
            /\ components = drawn_components(max_torque, limits)
            /\ control = ctl
            /\ keyboard = {}
            /\ invocation = no_invocation
       \/ \E h \in -1..MaxMag : \E rot \in {Matrix_identity, rz(1)} :
          \E vx \in -MaxVel..MaxVel : \E vy \in -MaxVel..MaxVel :
          \E vz \in -MaxMag..MaxMag : \E wy \in 0..1 : \E f \in 0..1 :
            /\ joints = (1 :> [Joint_default EXCEPT
                                 !.joint_type = "Ry",
                                 !.f_ext = Force_new(Vector_new(f, 0, f),
                                                     Vector_new(0, f, 0)),
                                 !.x = Xform_new(Vector_new(0, 0, h), rot),
                                 !.v = Motion_new(Vector_new(vx, vy, vz),
                                                  Vector_new(0, wy, 0))])
            /\ components = drawn_components(4, [max_speed |-> 50, max_power |-> 1000])
            /\ control = [throttle |-> 0, steering |-> 0, brake |-> 0]
            /\ keyboard = {}
            /\ invocation = no_invocation
    /\ json = no_model
    /\ children = << <<>> >>
    /\ base_query = <<>>
    /\ states = <<>>
    /\ dstate = <<>>
    /\ pc = "drawn"
    /\ frames = 0
    /\ evals = 0
    /\ calls = <<>>
    /\ ran = {}
    /\ pre = joints
    /\ snap = joints
    /\ writers = (1 :> [tau |-> {}, f_ext |-> {}])

\* One system runs on the drawn joint; pre keeps the joint it found.
one_system(sys, js) ==
    /\ pc = "drawn"
    /\ pre' = joints
    /\ joints' = js
    /\ pc' = sys
    /\ ran' = {sys}
    /\ UNCHANGED <<json, invocation, keyboard, children, base_query, components,
                   control, states, dstate, frames, evals, calls, snap, writers>>

f_steering_system == one_system("steering_system", steering_system(joints, components, control))

f_suspension_system == one_system("suspension_system", suspension_system(joints, components))

f_tire_contact_system ==
    one_system("tire_contact_system", tire_contact_system(joints, components))

f_driven_wheel_system ==
    one_system("driven_wheel_system", driven_wheel_system(joints, components, control))

f_brake_wheel_system ==
    one_system("brake_wheel_system", brake_wheel_system(joints, components, control))

NextForce ==
    \/ f_steering_system
    \/ f_suspension_system
    \/ f_tire_contact_system
    \/ f_driven_wheel_system
    \/ f_brake_wheel_system

\* Each system of car/physics.rs on one joint in a drawn state.
SpecForce == InitForce /\ [][NextForce]_vars

\* ------------------------------------------------ drawn model descriptions
\* The joint definitions a drawn description lists after its base: a Pz
\* joint of unit mass with a box mesh, its name one of two, its parent the base or one
\* of the two names (its own among them).
DrawnJointDefs ==
    {JointDef(name, "Pz", parent, ZERO_TRANSFORM,
              InertiaDef(1, <<0, 0, 0>>, <<1, 1, 1, 0, 0, 0>>), <<MeshDef("Box")>>) :
       name \in {"a", "b"}, parent \in {"base", "a", "b"}}

\* A description: the base, up to MaxDefs joint definitions, and a drive
\* system on the joint the first of them names, with declared limits.
DrawnModels ==
    {[name |-> "drawn",
      joints |-> <<JointDef("base", "Base", None, ZERO_TRANSFORM, ZERO_INERTIA, <<>>)>>
                 \o defs,
      systems |-> <<SystemDef("Drive", [joint |-> defs[1].name, max_torque |-> 4,
                                        max_speed |-> limits.max_speed,
                                        max_power |-> limits.max_power])>>] :
       defs \in UNION {[1..n -> DrawnJointDefs] : n \in 1..MaxDefs},
       limits \in DeclaredLimits}

\* Before the startup stage: a drawn description in data/car.json, no entity.
InitBuild ==
    /\ json \in DrawnModels
    /\ joints = <<>>
    /\ children = <<>>
    /\ base_query = <<>>
    /\ components = no_components
    /\ control = [throttle |-> 0, steering |-> 0, brake |-> 0]
    /\ keyboard = {}
    /\ invocation = no_invocation
    /\ states = <<>>
    /\ dstate = <<>>
    /\ pc = "startup"
    /\ frames = 0
    /\ evals = 0
    /\ calls = <<>>
    /\ ran = {}
    /\ pre = <<>>
    /\ snap = <<>>
    /\ writers = <<>>

\* The startup stage ends.  When build_model returned, the commands it
\* queued are applied and the schedule's systems run next; when an expect
\* or unwrap in it panicked, the app is gone: no command is applied and no
\* system runs.
apply_commands(m) ==
    /\ joints' = IF m.components.panicked THEN joints ELSE m.world.joints
    /\ children' = IF m.components.panicked THEN children ELSE m.world.children
    /\ base_query' = IF m.components.panicked THEN base_query ELSE m.world.base_query
    /\ components' = IF m.components.panicked THEN components ELSE m.components
    /\ pc' = IF m.components.panicked THEN "aborted" ELSE "t_loop_1"

\* build_from_json::build_model in the startup stage, on the description
\* data/car.json holds.
run_build_model ==
    /\ pc = "startup"
    /\ apply_commands(build_model(json))
    /\ pre' = joints'
    /\ snap' = joints'
    /\ writers' = [e \in DOMAIN joints' |-> [tau |-> {}, f_ext |-> {}]]
    /\ UNCHANGED <<json, invocation, keyboard, control, states, dstate, frames, evals,
                   calls, ran>>

NextBuild == run_build_model \/ t_loop_1 \/ t_apply_external_forces \/ t_loop_23

\* A drawn description built, then the traversal systems on what was built.
SpecBuild == InitBuild /\ [][NextBuild]_vars

\* ------------------------------------------------- the keyboard, frame by frame
\* The app with its CarControl resource at Default, no gamepad connected, no
\* model built.
InitControl ==
    /\ json = no_model
    /\ joints = <<>>
    /\ children = <<>>
    /\ base_query = <<>>
    /\ components = no_components
    /\ control = [throttle |-> 0, steering |-> 0, brake |-> 0]
    /\ keyboard = {}
    /\ invocation = no_invocation
    /\ states = <<>>
    /\ dstate = <<>>
    /\ pc = "frames"
    /\ frames = 0
    /\ evals = 0
    /\ calls = <<>>
    /\ ran = {}
    /\ pre = <<>>
    /\ snap = <<>>
    /\ writers = <<>>

\* The input system: keys of W, S, A, D go down or up.
keyboard_input ==
    /\ pc = "frames"
    /\ \E pressed \in SUBSET Keys : pressed # keyboard /\ keyboard' = pressed
    /\ UNCHANGED <<json, invocation, joints, children, base_query, components, control,
                   states, dstate, pc, frames, evals, calls, ran, pre, snap, writers>>

\* A frame's user_control_system on the keys held, Gamepads being empty;
\* frames counts up to MaxFrames.
keyboard_control_system ==
    /\ pc = "frames"
    /\ control' = user_control(control, <<>>, keyboard)
    /\ frames' = Min2(frames + 1, MaxFrames)
    /\ UNCHANGED <<json, invocation, keyboard, joints, children, base_query, components,
                   states, dstate, pc, evals, calls, ran, pre, snap, writers>>

NextControl == keyboard_input \/ keyboard_control_system

\* Frames of the app under keyboard control.
SpecControl == InitControl /\ [][NextControl]_vars

\* The Update schedule runs user_control_system in every frame, and frames
\* keep coming; what the keyboard does is up to the user.
FairControl == SpecControl /\ WF_vars(keyboard_control_system)

\* ------------------------------------------------- sva.rs on drawn operands
DrawnVectors ==
    {Vector_zeros, Vector_new(1, 0, 0), Vector_new(0, -1, MaxMag), Vector_new(2, 3, -1)}

DrawnMotions == {Motion_new(v, w) : v \in DrawnVectors, w \in DrawnVectors}

DrawnForces == {Force_new(f, m) : f \in DrawnVectors, m \in DrawnVectors}

\* Rotation matrices: quarter turns about the axes and a product of two.
DrawnRotations == {Matrix_identity, rx(1), rz(1), mmul(ry(1), rx(1))}

DrawnXforms ==
    {Xform_new(p, r) : p \in {Vector_zeros, Vector_new(1, 0, 0), Vector_new(2, 3, -1)},
                       r \in DrawnRotations}

DrawnInertias ==
    {Inertia_new(m, c, moi) :
       m \in 0..MaxMag, c \in DrawnVectors,
       moi \in {Matrix_identity, <<<<3, 1, 0>>, <<1, 4, 0>>, <<0, 0, 5>>>>}}

\* An operation of sva.rs and the operands it is about to be given.
InitAlgebra ==
    /\ \/ \E v \in DrawnMotions : \E m \in DrawnMotions : \E f \in DrawnForces :
            invocation = [no_invocation EXCEPT !.fn = "cross",
                                               !.args = [v |-> v, m |-> m, f |-> f]]
       \/ \E a \in DrawnXforms : \E b \in DrawnXforms : \E c \in DrawnXforms :
            invocation = [no_invocation EXCEPT !.fn = "mul",
                                               !.args = [a |-> a, b |-> b, c |-> c]]
       \/ \E i \in DrawnInertias : \E m \in DrawnMotions :
            invocation = [no_invocation EXCEPT !.fn = "inertia",
                                               !.args = [i |-> i, m |-> m]]
    /\ json = no_model
    /\ joints = <<>>
    /\ children = <<>>
    /\ base_query = <<>>
    /\ components = no_components
    /\ control = [throttle |-> 0, steering |-> 0, brake |-> 0]
    /\ keyboard = {}
    /\ states = <<>>
    /\ dstate = <<>>
    /\ pc = "operands"
    /\ frames = 0
    /\ evals = 0
    /\ calls = <<>>
    /\ ran = {}
    /\ pre = <<>>
    /\ snap = <<>>
    /\ writers = <<>>

\* The operation has returned ret.
returned(fn, ret) ==
    /\ pc = "operands"
    /\ invocation.fn = fn
    /\ invocation' = [invocation EXCEPT !.ret = ret]
    /\ pc' = "returned"
    /\ UNCHANGED <<json, joints, children, base_query, components, control, keyboard,
                   states, dstate, frames, evals, calls, ran, pre, snap, writers>>

\* v.cross_v(m) and v.cross_f(f)
apply_cross ==
    returned("cross", [cross_v |-> cross_v(invocation.args.v, invocation.args.m),
                       cross_f |-> cross_f(invocation.args.v, invocation.args.f)])

\* (a * b) * c and a * (b * c)
apply_mul ==
    returned("mul",
             [ab_c |-> Xform_mul_Xform(Xform_mul_Xform(invocation.args.a, invocation.args.b),
                                       invocation.args.c),
              a_bc |-> Xform_mul_Xform(invocation.args.a,
                                       Xform_mul_Xform(invocation.args.b, invocation.args.c))])

\* i * m and InertiaAB::from(i) * m
apply_inertia ==
    returned("inertia",
             [rigid |-> Inertia_mul_Motion(invocation.args.i, invocation.args.m),
              articulated |-> InertiaAB_mul_Motion(InertiaAB_from(invocation.args.i),
                                                   invocation.args.m)])

NextAlgebra == apply_cross \/ apply_mul \/ apply_inertia

\* The operations of sva.rs on drawn operands.
SpecAlgebra == InitAlgebra /\ [][NextAlgebra]_vars

\* ------------------------------------------------- schedule.rs: bin_search
\* The largest usize of the model, usize::MAX where usize has 16 bits; on a
\* wider target the wrapped length is larger still.
usize_MAX == 65535

\* usize's a - b where overflow is not checked.
wrapping_sub(a, b) == (a - b) % (usize_MAX + 1)

\* The time vectors of a recording: up to MaxLen samples, ascending.
TimeVectors ==
    UNION {{d \in [1..n -> 0..MaxLen] : \A i \in 1..(n - 1) : d[i] <= d[i + 1]} :
             n \in 0..MaxLen}

\* The body of the while loop with data[middle] < x taken as left = middle.
while_body_left_middle(locals, x, data) ==
    LET middle == (locals.left + locals.right) \div 2
    IN IF middle >= Len(data) THEN [locals EXCEPT !.panicked = TRUE]
       ELSE IF data[middle + 1] < x THEN [locals EXCEPT !.left = middle]
       ELSE [locals EXCEPT !.right = middle]

\* The body of the while loop: middle, then one of the two halves; the index
\* data[middle] panics when middle is out of bounds.
while_body(locals, x, data) ==
    LET middle == (locals.left + locals.right) \div 2
    IN IF middle >= Len(data) THEN [locals EXCEPT !.panicked = TRUE]
       ELSE IF data[middle + 1] < x THEN [locals EXCEPT !.left = middle + 1]
       ELSE [locals EXCEPT !.right = middle]

\* set_replay_data is about to call bin_search(time.elapsed_seconds(),
\* time_data), in a build with or without overflow checks.
InitReplay ==
    /\ \E x \in -1..(MaxLen + 1) : \E data \in TimeVectors :
       \E overflow_checks \in BOOLEAN :
         invocation = [no_invocation EXCEPT
                         !.fn = "bin_search",
                         !.args = [x |-> x, data |-> data,
                                   overflow_checks |-> overflow_checks]]
    /\ json = no_model
    /\ joints = <<>>
    /\ children = <<>>
    /\ base_query = <<>>
    /\ components = no_components
    /\ control = [throttle |-> 0, steering |-> 0, brake |-> 0]
    /\ keyboard = {}
    /\ states = <<>>
    /\ dstate = <<>>
    /\ pc = "bin_search"
    /\ frames = 0
    /\ evals = 0
    /\ calls = <<>>
    /\ ran = {}
    /\ pre = <<>>
    /\ snap = <<>>
    /\ writers = <<>>

\* bin_search is at at with the locals l.
bin_search_at(at, l) ==
    /\ invocation' = [invocation EXCEPT !.locals = l]
    /\ pc' = at
    /\ UNCHANGED <<json, joints, children, base_query, components, control, keyboard,
                   states, dstate, frames, evals, calls, ran, pre, snap, writers>>

\* let mut left = 0; let mut right = data.len() - 1: the subtraction panics
\* on an empty vector where overflow is checked and wraps where it is not.
bin_search_enter ==
    /\ pc = "bin_search"
    /\ IF invocation.args.data = <<>> /\ invocation.args.overflow_checks
       THEN bin_search_at("panicked", <<>>)
       ELSE bin_search_at("while",
                          [left |-> 0,
                           right |-> wrapping_sub(Len(invocation.args.data), 1),
                           panicked |-> FALSE])

\* An iteration of while left < right.
bin_search_while ==
    /\ pc = "while"
    /\ invocation.locals.left < invocation.locals.right
    /\ bin_search_at(IF while_body(invocation.locals, invocation.args.x,
                                   invocation.args.data).panicked
                     THEN "panicked" ELSE "while",
                     while_body(invocation.locals, invocation.args.x,
                                invocation.args.data))

\* The loop is left and left is returned (ret holds the one value).
bin_search_return ==
    /\ pc = "while"
    /\ ~(invocation.locals.left < invocation.locals.right)
    /\ invocation' = [invocation EXCEPT !.ret = <<invocation.locals.left>>]
    /\ pc' = "returned"
    /\ UNCHANGED <<json, joints, children, base_query, components, control, keyboard,
                   states, dstate, frames, evals, calls, ran, pre, snap, writers>>

NextReplay == bin_search_enter \/ bin_search_while \/ bin_search_return

\* bin_search, statement by statement.
SpecReplay == InitReplay /\ [][NextReplay]_vars

\* A call that can take a step takes it.
FairReplay == SpecReplay /\ WF_vars(NextReplay)

\* ------------------------------------------------- claims on the traversal
OutwardFns == {"loop_1_update", "apply_external_update", "loop_3_update"}

InwardFns == {"loop_2_update"}

IsBase(e) == \E b \in 1..Len(base_query) : base_query[b] = e

\* The entities below e that carry a Joint.
RECURSIVE JointDescendants(_)
JointDescendants(e) ==
    LET kids == {children[e][k] : k \in 1..Len(children[e])} \cap DOMAIN joints
    IN kids \cup UNION {JointDescendants(k) : k \in kids}

\* parent[e] is the entity whose Children list e, 0 when none does.
ParentMap ==
    [e \in 1..Len(children) |->
       IF \E p \in 1..Len(children) : \E k \in 1..Len(children[p]) : children[p][k] = e
       THEN CHOOSE p \in 1..Len(children) : \E k \in 1..Len(children[p]) : children[p][k] = e
       ELSE 0]

\* C1: in an outward pass (fn_out set) the update function is called on a
\* joint only after it was called, in the same pass, on the joint's parent,
\* unless that parent is a Base; and it is called at most once on each joint.
C1_OutwardParentBeforeChild ==
    \A k \in 1..Len(calls) :
      calls[k].f \in OutwardFns =>
        /\ ~IsBase(calls[k].parent) =>
             \E i \in 1..(k - 1) : calls[i].f = calls[k].f /\ calls[i].joint = calls[k].parent
        /\ \A i \in 1..Len(calls) :
             calls[i].f = calls[k].f /\ calls[i].joint = calls[k].joint => i = k

\* C1's case: an outward pass has called the update function on a joint
\* whose parent is a joint, not a Base.
C1_Witness ==
    \E k \in 1..Len(calls) :
      /\ calls[k].f = "loop_1_update"
      /\ ~IsBase(calls[k].parent)
      /\ joints[calls[k].joint].x # Joint_default.x

\* C2: in the inward pass (fn_in set) the update function is called on a
\* joint only after it was called on every joint below it.
C2_InwardDescendantsFirst ==
    \A k \in 1..Len(calls) :
      calls[k].f \in InwardFns =>
        \A d \in JointDescendants(calls[k].joint) :
          \E i \in 1..(k - 1) : calls[i].f = calls[k].f /\ calls[i].joint = d

\* C2's case: the inward pass has folded a joint that has a joint below a
\* joint below it.
C2_Witness ==
    \E k \in 1..Len(calls) :
      /\ calls[k].f = "loop_2_update"
      /\ \E d \in JointDescendants(calls[k].joint) : JointDescendants(d) # {}

\* The joints the pass that led to this state leaves when the children are
\* listed as in ch, started from the joints in pre.
LastPassUnder(ch) ==
    LET w == [joints |-> pre, calls |-> <<>>]
    IN CASE pc = "t_apply_external_forces" -> loop_1(w, ch, base_query).joints
         [] pc = "t_loop_23" -> apply_external_forces(w, ch, base_query).joints
         [] pc = "t_done" -> loop_23(w, ch, base_query).joints
         [] OTHER -> joints

\* C5: whatever the order in which the children of each parent are listed,
\* every pass leaves the same joints (the outward passes' per-joint values
\* and the inward pass's sums into the shared parent).
C5_SiblingOrderIndependent ==
    \A ch \in ChildOrders(ParentMap, Len(children)) : LastPassUnder(ch) = joints

\* C5's case: the inward and outward passes have run on a forest in which a
\* joint has two joint children, whose sums reached their parent.
C5_Witness ==
    /\ pc = "t_done"
    /\ \E e \in DOMAIN joints :
         /\ Cardinality({children[e][k] : k \in 1..Len(children[e])} \cap DOMAIN joints) >= 2
         /\ ~IsBase(e)
         /\ joints[e].iaa # InertiaAB_from(joints[e].i)

\* ------------------------------------------------------ claims on the car
ForceModels ==
    {"steering_system", "suspension_system", "tire_contact_system",
     "driven_wheel_system", "brake_wheel_system"}

AccumulatingModels == ForceModels \ {"steering_system"}

\* The place of an update function's pass in an evaluation.
PassRank(f) ==
    CASE f = "loop_1_update" -> 1
      [] f = "apply_external_update" -> 2
      [] f = "loop_2_update" -> 3
      [] f = "loop_3_update" -> 4

\* The joints whose parent carries a Joint: those a pass calls its function on.
VisitedJoints == {e \in DOMAIN joints : ParentMap[e] \in DOMAIN joints}

\* C3 (as the code has it): in one evaluation steering runs before pass 1;
\* suspension, tire contact, drive and brake run after pass 1 and before
\* external-force resolution; then come external-force resolution, the
\* whole of pass 2 and the whole of pass 3; the calls of one pass on the
\* tree are never mixed with those of another, and pass 2 and pass 3 each
\* visit every joint once.
C3_PassOrder ==
    /\ "loop_1" \in ran => "steering_system" \in ran
    /\ \A sys \in AccumulatingModels : sys \in ran => "loop_1" \in ran
    /\ "apply_external_forces" \in ran => AccumulatingModels \subseteq ran
    /\ "loop_23" \in ran => "apply_external_forces" \in ran
    /\ \A i, j \in 1..Len(calls) : i < j => PassRank(calls[i].f) <= PassRank(calls[j].f)
    /\ "loop_23" \in ran =>
         \A f \in {"loop_2_update", "loop_3_update"} : \A e \in VisitedJoints :
           Cardinality({k \in 1..Len(calls) : calls[k].f = f /\ calls[k].joint = e}) = 1

\* C3's case: a whole evaluation has run, every system in it.
C3_Witness ==
    /\ pc = "idle"
    /\ evals >= 1
    /\ ForceModels \cup {"loop_1", "apply_external_forces", "loop_23"} \subseteq ran
    /\ Len(calls) = 4 * Cardinality(VisitedJoints)

\* C3 as stated: no force model, steering among them, runs before pass 1.
C3_NoForceModelBeforePass1 ==
    \A sys \in ForceModels : sys \in ran => "loop_1" \in ran

\* The force-injection pass is about to start: the first group of the
\* schedule has run, none of the accumulating models has.
AtForceStart ==
    /\ pc = "schedule"
    /\ {"steering_system", "loop_1"} \subseteq ran
    /\ AccumulatingModels \cap ran = {}

\* The force-injection pass is over and nothing has run after it.
AtForceEnd ==
    /\ pc = "schedule"
    /\ AccumulatingModels \subseteq ran
    /\ "apply_external_forces" \notin ran

\* The joints after force injection when the evaluation is run on the car as
\* it was built, for the state vector st and the control ctl.
FreshForces(st, ctl) ==
    LET js0 == build_model(car_json).world.joints
        js1 == [e \in DOMAIN js0 |-> reset(set_model_state(js0, st)[e])]
        js2 == steering_system(js1, components, ctl)
        js3 == loop_1([joints |-> js2, calls |-> <<>>], children, base_query).joints
    IN brake_wheel_system(
         driven_wheel_system(
           tire_contact_system(suspension_system(js3, components), components),
           components, ctl),
         components, ctl)

\* C4: when the force-injection pass of an evaluation starts, tau and f_ext
\* of every joint are zero; when it ends they are what the state vector and
\* the control of this evaluation give on the car as built, whatever the
\* evaluations before it left.
C4_AccumulatorsZeroAtInjection ==
    /\ AtForceStart =>
         \A e \in DOMAIN joints : joints[e].tau = 0 /\ joints[e].f_ext = Force_zero
    /\ AtForceEnd =>
         LET fresh == FreshForces(states, control)
         IN \A e \in DOMAIN joints :
              joints[e].tau = fresh[e].tau /\ joints[e].f_ext = fresh[e].f_ext

\* C4's case: force injection starts in an evaluation that follows one which
\* left a generalized force and an external force on some joint.
C4_Witness ==
    /\ AtForceStart
    /\ evals >= 2
    /\ \E e \in DOMAIN pre : pre[e].tau # 0
    /\ \E e \in DOMAIN pre : pre[e].f_ext # Force_zero

\* The joints after the systems of the sequence order have run on js.
RECURSIVE run_in_order(_, _)
run_in_order(order, js) ==
    IF order = <<>> THEN js
    ELSE run_in_order(Tail(order), force_system(order[1], js, components, control))

\* C6: during force injection a joint differs from what it was when the
\* pass started in its tau and f_ext only, tau only where a suspension, drive
\* or brake model is attached and f_ext only where a tire-contact model is;
\* and tau and f_ext of every joint are those that every order of the
\* systems run so far gives.
C6_ForceOrderIndependent ==
    (pc = "schedule" /\ "loop_1" \in ran /\ "apply_external_forces" \notin ran) =>
      /\ \A e \in DOMAIN joints :
           /\ [joints[e] EXCEPT !.tau = 0, !.f_ext = Force_zero]
                = [snap[e] EXCEPT !.tau = 0, !.f_ext = Force_zero]
           /\ e \notin DOMAIN components.suspension \cup DOMAIN components.driven_wheel
                         \cup DOMAIN components.brake_wheel
                => joints[e].tau = snap[e].tau
           /\ e \notin DOMAIN components.tire_contact => joints[e].f_ext = snap[e].f_ext
      /\ \A order \in SeqsOf(AccumulatingModels \cap ran) :
           LET js == run_in_order(order, snap)
           IN \A e \in DOMAIN joints :
                js[e].tau = joints[e].tau /\ js[e].f_ext = joints[e].f_ext

\* C6's case: the four systems have run on a car whose drive and brake both
\* add a torque to a wheel and whose tires press on the ground.
C6_Witness ==
    /\ AtForceEnd
    /\ control.throttle > 0
    /\ control.brake > 0
    /\ \E e \in DOMAIN components.driven_wheel : joints[e].tau # 0
    /\ \E e \in DOMAIN components.tire_contact : joints[e].f_ext # Force_zero
    /\ \E e \in DOMAIN components.suspension : joints[e].tau # 0

\* The systems attached to a joint that write its tau.
TauModels(e) ==
    {sys \in AccumulatingModels : e \in tau_written(sys, joints, components)}

\* C7 (as the code has it): f_ext of a joint is written by tire contact
\* alone; tau is written by one model at most on every joint but two, the
\* rear wheels, which hang below a suspension joint and carry a drive and a
\* brake model that both add to tau.
C7_WritersPerAccumulator ==
    /\ \A e \in DOMAIN joints :
         /\ writers[e].tau \subseteq TauModels(e)
         /\ writers[e].f_ext \subseteq
              IF e \in DOMAIN components.tire_contact THEN {"tire_contact_system"} ELSE {}
         /\ Cardinality(TauModels(e)) >= 2 =>
              /\ TauModels(e) = {"driven_wheel_system", "brake_wheel_system"}
              /\ ParentMap[e] \in DOMAIN components.suspension
    /\ Cardinality({e \in DOMAIN joints : Cardinality(TauModels(e)) >= 2}) = 2

\* C7's case: drive and brake have both written tau of one wheel in one pass.
C7_Witness ==
    \E e \in DOMAIN joints :
      writers[e].tau = {"driven_wheel_system", "brake_wheel_system"}

\* The components attached to a joint.
ComponentsOn(e) ==
    {k \in {"steering", "driven_wheel", "brake_wheel", "suspension", "tire_contact"} :
       e \in DOMAIN components[k]}

\* C7 as stated: at most one force model is attached to each joint and no
\* accumulator is written by more than one.
C7_AtMostOneModelPerJoint ==
    \A e \in DOMAIN joints :
      /\ Cardinality(ComponentsOn(e)) <= 1
      /\ Cardinality(writers[e].tau) <= 1
      /\ Cardinality(writers[e].f_ext) <= 1

\* ------------------------------------------- claims on the force models
\* What the brake system added to tau of the drawn joint.
BrakeTorque == joints[1].tau - pre[1].tau

\* What it adds to a joint that differs in the sign of qd only.
MirrorBrakeTorque ==
    LET mirror == [pre[1] EXCEPT !.qd = F32(~pre[1].qd.neg, pre[1].qd.mag)]
    IN brake_wheel_joint(mirror, components.brake_wheel[1], control).tau - mirror.tau

\* C8 as stated: the brake system leaves tau unchanged on a joint whose qd
\* is 0, for every brake control value and max_torque.
C8_BrakeZeroAtRest ==
    (pc = "brake_wheel_system" /\ Num(pre[1].qd) = 0) => BrakeTorque = 0

\* C9: on a joint whose qd is not 0 the brake system adds
\* -control.brake * max_torque * sign(qd) to tau, the opposite of what it
\* adds for -qd, and of the sign opposite to qd's when brake > 0 and
\* max_torque > 0.
C9_BrakeTorqueAntisymmetric ==
    (pc = "brake_wheel_system" /\ Num(pre[1].qd) # 0) =>
      /\ BrakeTorque = -control.brake * components.brake_wheel[1].max_torque
                        * Sgn(Num(pre[1].qd))
      /\ BrakeTorque = -MirrorBrakeTorque
      /\ (control.brake > 0 /\ components.brake_wheel[1].max_torque > 0) =>
           Sgn(BrakeTorque) = -Sgn(Num(pre[1].qd))

\* C9's case: the brake is applied to a turning wheel and changes its tau.
C9_Witness ==
    /\ pc = "brake_wheel_system"
    /\ Num(pre[1].qd) # 0
    /\ control.brake > 0
    /\ BrakeTorque # 0

\* The force the tire-contact system added to f_ext of the drawn joint.
TireForce == vsub(joints[1].f_ext.f, pre[1].f_ext.f)

\* The tire-contact model's quantities on the joint it found.
TireFound == tire_contact_force(pre[1], components.tire_contact[1])

\* C10: when the tire-contact system applies a force, its two components
\* along the ground are each no larger in magnitude than its vertical
\* component, and the component along a ground direction in which the
\* contact point's velocity times the friction stiffness reaches 1 equals
\* the vertical component in magnitude.
C10_FrictionSaturated ==
    (pc = "tire_contact_system" /\ TireFound.applied) =>
      /\ joints[1].f_ext = Force_add(pre[1].f_ext, TireFound.f_abs)
      /\ TireForce[3] = TireFound.vertical_force
      /\ Abs(dot(TireForce, TireFound.contact_forward_abs)) <= Abs(TireForce[3])
      /\ Abs(dot(TireForce, TireFound.contact_lat_abs)) <= Abs(TireForce[3])
      /\ LET k == components.tire_contact[1].longitudinal_stiffness
         IN Abs(TireFound.forward_vel) * k.num >= k.den =>
              Abs(dot(TireForce, TireFound.contact_forward_abs)) = Abs(TireForce[3])
      /\ LET k == components.tire_contact[1].lateral_stiffness
         IN Abs(TireFound.lat_vel) * k.num >= k.den =>
              Abs(dot(TireForce, TireFound.contact_lat_abs)) = Abs(TireForce[3])

\* C10's case: a tire pressed on the ground slides fast forward and slowly
\* sideways: the forward friction is saturated, the lateral one is not.
C10_Witness ==
    /\ pc = "tire_contact_system"
    /\ TireFound.applied
    /\ TireForce[3] > 0
    /\ Abs(TireFound.forward_vel) >= 5
    /\ Abs(dot(TireForce, TireFound.contact_forward_abs)) = TireForce[3]
    /\ TireFound.lat_vel # 0
    /\ Abs(dot(TireForce, TireFound.contact_lat_abs)) < TireForce[3]

\* The height above the ground plane of the lowest point of the tire the
\* system found: the wheel centre less the radius along tire-up, which is
\* world-up for the drawn wheels (their axes are level).
TireLowestHeight ==
    transform_point(inverse(pre[1].x), Vector_new(0, 0, 0))[3]
      - components.tire_contact[1].radius

\* The absolute velocity of the point of the wheel at the ground below the
\* wheel centre, on the joint the system found.
ContactPointVelocity ==
    LET x0 == inverse(pre[1].x)
        centre == transform_point(x0, Vector_new(0, 0, 0))
    IN velocity_point(Xform_mul_Motion(x0, pre[1].v),
                      Vector_new(centre[1], centre[2], 0)).vel

\* C11: when the lowest point of the tire is at or above the ground plane,
\* grazing contact included, tire_contact_system applies no force: f_ext and
\* every other field of the joint are as it found them.
C11_NoForceAtOrAboveGround ==
    (pc = "tire_contact_system" /\ TireLowestHeight >= 0) =>
      /\ joints[1].f_ext = pre[1].f_ext
      /\ joints[1] = pre[1]

\* C11's case: a tire that grazes the ground while its centre moves
\* vertically, on a joint that already carries an external force.
C11_Witness ==
    /\ pc = "tire_contact_system"
    /\ TireLowestHeight = 0
    /\ pre[1].v.v[3] # 0
    /\ pre[1].f_ext # Force_zero
    /\ joints[1].f_ext = pre[1].f_ext

\* C12: for a wheel that penetrates the ground by d > 0 and whose contact
\* point has no absolute velocity, the force tire_contact_system adds is
\* stiffness * d along world-up, with no longitudinal and no lateral part.
C12_SpringForceAtRest ==
    (/\ pc = "tire_contact_system"
     /\ TireLowestHeight < 0
     /\ ContactPointVelocity = Vector_zeros) =>
      TireForce = Vector_new(0, 0, components.tire_contact[1].stiffness
                                     * (-TireLowestHeight))

\* C12's case: a wheel two radii deep that rolls without slipping, so that
\* its contact point is at rest while the joint is not.
C12_Witness ==
    /\ pc = "tire_contact_system"
    /\ TireLowestHeight = -2
    /\ ContactPointVelocity = Vector_zeros
    /\ pre[1].v.w # Vector_zeros
    /\ pre[1].v.v # Vector_zeros
    /\ TireForce = Vector_new(0, 0, 2 * components.tire_contact[1].stiffness)

\* C13: suspension_system leaves the joint as it found it but for tau, which
\* is the tau it found less stiffness * q and less damping * qd.
C13_SuspensionForce ==
    pc = "suspension_system" =>
      joints[1] = [pre[1] EXCEPT
                     !.tau = pre[1].tau
                             - components.suspension[1].stiffness * pre[1].q
                             - components.suspension[1].damping * Num(pre[1].qd)]

\* C13's case: a displaced, moving joint that already carries a generalized
\* force.
C13_Witness ==
    /\ pc = "suspension_system"
    /\ pre[1].tau # 0
    /\ pre[1].q # 0
    /\ Num(pre[1].qd) < 0
    /\ joints[1].tau # pre[1].tau

\* C14: steering_system sets q to control.steering * max_angle whatever q
\* was, and leaves qd, tau, f_ext and every other field of the joint alone.
C14_SteeringOverwritesPosition ==
    pc = "steering_system" =>
      /\ joints[1].q = control.steering * components.steering[1].max_angle
      /\ joints[1] = [pre[1] EXCEPT !.q = joints[1].q]

\* C14's case: a joint turned one way is steered the other way while it
\* moves and carries a generalized force.
C14_Witness ==
    /\ pc = "steering_system"
    /\ pre[1].q = 1
    /\ joints[1].q = -1
    /\ Num(pre[1].qd) # 0
    /\ pre[1].tau # 0

\* C15: driven_wheel_system adds control.throttle * max_torque to tau and
\* changes nothing else, whatever the joint's velocity; the component it
\* reads is the same whichever max_speed and max_power the definition
\* declares.
C15_DriveTorqueUnlimited ==
    pc = "driven_wheel_system" =>
      /\ joints[1] = [pre[1] EXCEPT
                        !.tau = pre[1].tau + control.throttle
                                             * components.driven_wheel[1].max_torque]
      /\ \A limits \in DeclaredLimits :
           components.driven_wheel[1] =
             from_def(SystemDef("Drive",
                                [joint |-> "wheel",
                                 max_torque |-> components.driven_wheel[1].max_torque,
                                 max_speed |-> limits.max_speed,
                                 max_power |-> limits.max_power]))

\* C15's case: full throttle on a wheel that turns faster than a declared
\* max_speed, with more power than a declared max_power.
C15_Witness ==
    /\ pc = "driven_wheel_system"
    /\ control.throttle = control_one
    /\ \E limits \in DeclaredLimits :
         /\ Abs(Num(pre[1].qd)) > limits.max_speed
         /\ (joints[1].tau - pre[1].tau) * Abs(Num(pre[1].qd)) > limits.max_power
    /\ joints[1].tau - pre[1].tau = control_one * components.driven_wheel[1].max_torque

\* -------------------------------------- claims on the model's construction
\* Some joint definition of d names a parent that no definition earlier in
\* the list carries as its name.
ParentNotEarlier(d) ==
    \E i \in DOMAIN d.joints :
      /\ d.joints[i].parent # None
      /\ d.joints[i].parent \notin {d.joints[k].name : k \in 1..(i - 1)}

\* Two joint definitions of d carry the same name.
DuplicateName(d) ==
    \E i, k \in DOMAIN d.joints : i # k /\ d.joints[i].name = d.joints[k].name

\* What build_model leaves in the world for the description d.
Forest(m) ==
    [joints |-> m.world.joints, children |-> m.world.children,
     base_query |-> m.world.base_query, components |-> m.components]

\* C16 as stated: once the startup stage has ended on a description in
\* which a joint names a parent that is not defined earlier in the list,
\* construction has aborted, nothing was built and no traversal has run.
C16_AbortsOnParentNotEarlier ==
    (pc # "startup" /\ ParentNotEarlier(json)) =>
      (pc = "aborted" /\ joints = <<>> /\ calls = <<>>)

\* C17 as stated: once the startup stage has ended on a description in
\* which two joint definitions carry the same name, construction has
\* aborted.
C17_AbortsOnDuplicateName ==
    (pc # "startup" /\ DuplicateName(json)) => pc = "aborted"

\* C18 as stated, in the form the build decides: a well-formed description
\* can be written back field for field from the forest built from it, so no
\* other well-formed description builds the same forest.
C18_ForestKeepsDescription ==
    (pc = "t_loop_1" /\ ~ParentNotEarlier(json) /\ ~DuplicateName(json)) =>
      \A d \in DrawnModels :
        (/\ ~ParentNotEarlier(d)
         /\ ~DuplicateName(d)
         /\ Forest(build_model(d)) = [joints |-> joints, children |-> children,
                                      base_query |-> base_query,
                                      components |-> components]) => d = json

\* ------------------------------------------------ claims on the state vector
\* The joint at position i of the order in which joint_query yields them.
JointAt(i) == CHOOSE e \in DOMAIN joints : joint_ind(joints, e) = i

\* C19: the state vector has one joint order for writing and reading.
\* Whatever states set_model_state writes, get_model_state returns them
\* index for index; and after all_loops, entry i of the derivative it read
\* with get_model_dstate is the (qd, qdd) of the joint that holds entry i of
\* the states it wrote, so its first half is the qd of entry i.
C19_StateOrderFixed ==
    /\ \A k \in 1..MaxStateChoice :
         joints # <<>> =>
           get_model_state(set_model_state(joints, candidate_states(k, joints)))
             = candidate_states(k, joints)
    /\ pc = "all_loops" =>
         /\ get_model_state(joints) = states
         /\ Len(dstate) = Len(states)
         /\ \A i \in 1..Len(states) :
              /\ get_state(joints[JointAt(i)]) = states[i]
              /\ dstate[i] = [q |-> joints[JointAt(i)].qd, qd |-> joints[JointAt(i)].qdd]
              /\ dstate[i].q = states[i].qd

\* C19's case: all_loops on a forest in which a mesh entity lies between
\* joint entities, so that a joint's index is not its entity, with states
\* that differ from joint to joint and an acceleration that is not 0.
C19_Witness ==
    /\ pc = "all_loops"
    /\ Len(states) >= 3
    /\ \E i \in 1..Len(states) : JointAt(i) # i
    /\ \E i, k \in 1..Len(states) : states[i].qd # states[k].qd
    /\ states[1] # states[Len(states)]
    /\ \E i \in 1..Len(dstate) : dstate[i].qd # 0

\* The joints the calls of the function f were made on.
CalledOn(f) == {calls[i].joint : i \in {k \in 1..Len(calls) : calls[k].f = f}}

\* C20: all_loops writes the candidate (q, qd) into every joint, then runs
\* pass 1 over the whole forest, then pass 2, then pass 3, each once on the
\* same joints, then reads (qd, qdd) back as the derivative.  It resets no
\* accumulator (tau and f_ext are as it found them), runs no force model
\* and makes no external-force resolution call.
C20_AllLoopsThreePasses ==
    pc = "all_loops" =>
      /\ \A e \in DOMAIN joints :
           /\ get_state(joints[e]) = states[joint_ind(joints, e)]
           /\ joints[e].tau = pre[e].tau
           /\ joints[e].f_ext = pre[e].f_ext
      /\ \A i \in 1..Len(calls) :
           calls[i].f \in {"loop_1_update", "loop_2_update", "loop_3_update"}
      /\ \A i, k \in 1..Len(calls) : i < k => PassRank(calls[i].f) <= PassRank(calls[k].f)
      /\ CalledOn("loop_2_update") = CalledOn("loop_1_update")
      /\ CalledOn("loop_3_update") = CalledOn("loop_1_update")
      /\ Len(calls) = 3 * Cardinality(CalledOn("loop_1_update"))
      /\ dstate = get_model_dstate(joints)

\* C20's case: all_loops on a forest with joints below a base, one of which
\* carried a generalized force when it was called.
C20_Witness ==
    /\ pc = "all_loops"
    /\ Cardinality(CalledOn("loop_1_update")) >= 2
    /\ \E e \in CalledOn("loop_1_update") : pre[e].tau # 0 /\ joints[e].tau = pre[e].tau
    /\ \E i \in 1..Len(dstate) : dstate[i].qd # 0

\* C20 as stated: after all_loops every joint's accumulators were reset to
\* zero (no force model is attached, so tau is still 0) and the
\* external-force resolution was called on every joint the passes visit.
C20_AllLoopsFullPass ==
    pc = "all_loops" =>
      /\ \A e \in DOMAIN joints : joints[e].tau = 0
      /\ CalledOn("apply_external_update") = CalledOn("loop_1_update")

\* ------------------------------------------------- claims on the controls
InRange(lo, x, hi) == lo <= x /\ x <= hi

\* C21: whatever keys are held frame after frame, starting from the default
\* control record, throttle and brake stay in [0, 1] and steering in [-1, 1].
C21_ControlsInRange ==
    pc = "frames" =>
      /\ InRange(0, control.throttle, control_one)
      /\ InRange(0, control.brake, control_one)
      /\ InRange(-control_one, control.steering, control_one)

\* C21 happens: W, S and D were held until throttle and brake stand at 1 and
\* steering at -1, and one more frame has run on them.
C21_Witness ==
    /\ pc = "frames"
    /\ keyboard = {"W", "S", "D"}
    /\ control = [throttle |-> control_one, steering |-> -control_one,
                  brake |-> control_one]
    /\ control = user_control(control, <<>>, keyboard)

ControlsAtRest == control = [throttle |-> 0, steering |-> 0, brake |-> 0]

\* C30: when from some frame on no key of W, S, A, D is held, throttle,
\* brake and steering come to 0 and stay there.
C30_ControlsReturnToRest == <>[](keyboard = {}) => <>[]ControlsAtRest

\* C30 happens: the keys were released with all three controls away from 0,
\* and steering is one step from 0 on its way back.
C30_Witness ==
    /\ pc = "frames"
    /\ keyboard = {}
    /\ invocation = no_invocation
    /\ control.steering = -1
    /\ control.throttle > 0
    /\ control.brake > 0

\* ------------------------------------------- claims on the spatial algebra
\* C22: the cross-force operator is the negative transpose of the
\* cross-motion operator: for motions v, m and a force f, v.cross_v(m) paired
\* with f is minus m paired with v.cross_f(f).
C22_CrossForceDual ==
    (pc = "returned" /\ invocation.fn = "cross") =>
      Motion_dot_Force(invocation.ret.cross_v, invocation.args.f)
        = -Motion_dot_Force(invocation.args.m, invocation.ret.cross_f)

\* C22 happens: both sides of the pairing are non-zero, and the v x f term
\* of cross_f is.
C22_Witness ==
    /\ pc = "returned"
    /\ invocation.fn = "cross"
    /\ Motion_dot_Force(invocation.ret.cross_v, invocation.args.f) # 0
    /\ cross(invocation.args.v.v, invocation.args.f.f) # Vector_zeros
    /\ dot(invocation.args.m.w, cross(invocation.args.v.v, invocation.args.f.f)) # 0

\* C23: composition of transforms is associative: (a * b) * c and
\* a * (b * c) have the same position and the same rotation.
C23_MulAssociative ==
    (pc = "returned" /\ invocation.fn = "mul") =>
      /\ invocation.ret.ab_c.position = invocation.ret.a_bc.position
      /\ invocation.ret.ab_c.rotation = invocation.ret.a_bc.rotation

\* C23 happens: three transforms with positions away from the origin, whose
\* rotations b and c do not commute, have been composed both ways.
C23_Witness ==
    /\ pc = "returned"
    /\ invocation.fn = "mul"
    /\ invocation.args.a.position # Vector_zeros
    /\ invocation.args.b.position # Vector_zeros
    /\ mmul(invocation.args.b.rotation, invocation.args.c.rotation)
         # mmul(invocation.args.c.rotation, invocation.args.b.rotation)
    /\ invocation.ret.ab_c.position # invocation.args.c.position

\* C29: a rigid-body inertia and its articulated-body form give the same
\* force for the same motion.
C29_ArticulatedFormSameAction ==
    (pc = "returned" /\ invocation.fn = "inertia") =>
      invocation.ret.articulated = invocation.ret.rigid

\* ------------------------------------------------ claims on what was built
\* The startup stage has ended and build_model has not aborted.
Built == pc \in {"t_loop_1", "t_apply_external_forces", "t_loop_23", "t_done"}

\* The entities that list e among their Children.
ParentsOf(e) ==
    {p \in 1..Len(children) : \E k \in 1..Len(children[p]) : children[p][k] = e}

\* C24 as stated: in whatever build_joints builds without aborting, every
\* joint has at most one parent, that parent is an entity created before the
\* joint, and so no joint is among its own ancestors.
C24_BuiltRelationIsForest ==
    (Built /\ json # no_model) =>
      \A e \in DOMAIN joints :
        /\ Cardinality(ParentsOf(e)) <= 1
        /\ \A p \in ParentsOf(e) : p < e

\* C25 as stated: every joint built from a definition carries the
\* definition's name, Joint.name being what get_name returns.
C25_JointsCarryTheirNames ==
    (Built /\ json # no_model) =>
      \A n \in DOMAIN build_joints(json).joint_ids :
        joints[build_joints(json).joint_ids[n]].name = n

\* ------------------------------------------- claims on a pass as a whole
\* The joints below a Base through joints only.
UnderBase == UNION {JointDescendants(base_query[b]) : b \in 1..Len(base_query)}

\* The update functions of the traversal system that led to this state.
FnsOfLastSystem ==
    CASE pc = "t_apply_external_forces" -> {"loop_1_update"}
      [] pc = "t_loop_23" -> {"apply_external_update"}
      [] pc = "t_done" -> {"loop_2_update", "loop_3_update"}
      [] pc = "all_loops" -> {"loop_1_update", "loop_2_update", "loop_3_update"}
      [] OTHER -> {}

\* The calls of f on the joint e in the log.
CallsOn(f, e) == {k \in 1..Len(calls) : calls[k].f = f /\ calls[k].joint = e}

\* C26: base_loop returns on every drawn forest, and in each pass the update
\* function has been applied exactly once to every joint below a Base and
\* never to another joint; a Base is never the joint of a call.
C26_OncePerJointUnderBase ==
    \A f \in FnsOfLastSystem :
      /\ \A e \in DOMAIN joints :
           Cardinality(CallsOn(f, e)) = IF e \in UnderBase THEN 1 ELSE 0
      /\ \A k \in 1..Len(calls) : ~IsBase(calls[k].joint)

\* C26 happens: the passes have run on a forest with a joint at depth two
\* below a Base, visited, beside a joint that has no Base above it, not
\* visited.
C26_Witness ==
    /\ pc = "t_done"
    /\ \E e \in UnderBase : ~IsBase(ParentMap[e]) /\ CallsOn("loop_3_update", e) # {}
    /\ \E e \in DOMAIN joints \ UnderBase : ~IsBase(e) /\ CallsOn("loop_3_update", e) = {}

\* p lists a child without a Joint before the child e, which has one.
AfterNonJoint(p, e) ==
    \E i, j \in 1..Len(children[p]) :
      /\ i < j
      /\ children[p][i] \notin DOMAIN joints
      /\ children[p][j] = e
      /\ e \in DOMAIN joints

\* C27: a child that carries no Joint is passed over: it is neither joint
\* nor parent of any call, the pass still returns, and the joints listed
\* after it under the same parent are visited all the same.
C27_NonJointChildSkipped ==
    \A f \in FnsOfLastSystem :
      /\ \A k \in 1..Len(calls) :
           calls[k].joint \in DOMAIN joints /\ calls[k].parent \in DOMAIN joints
      /\ \A p \in UnderBase \cup {base_query[b] : b \in 1..Len(base_query)} :
           \A e \in DOMAIN joints : AfterNonJoint(p, e) => CallsOn(f, e) # {}

\* C27 happens: the passes have run on a forest in which a joint below a
\* Base lists a mesh before a joint, and that joint was visited.
C27_Witness ==
    /\ pc = "t_done"
    /\ \E p \in UnderBase : \E e \in DOMAIN joints :
         AfterNonJoint(p, e) /\ CallsOn("loop_2_update", e) # {}

\* ------------------------------------------------- claims on bin_search
\* The indices (from 0) of the samples of data that are >= x.
NotBelow(data, x) == {i \in 0..(Len(data) - 1) : data[i + 1] >= x}

\* The index the search is to give on a non-empty data: the smallest one of
\* a sample >= x, the last one when there is none.
LowerBound(data, x) ==
    IF NotBelow(data, x) = {} THEN Len(data) - 1
    ELSE CHOOSE i \in NotBelow(data, x) : \A k \in NotBelow(data, x) : i <= k

\* bin_search has returned the index it is to give.
ReturnedLowerBound ==
    IF pc = "returned"
    THEN /\ invocation.args.data # <<>>
         /\ invocation.ret[1] \in 0..(Len(invocation.args.data) - 1)
         /\ invocation.ret[1] = LowerBound(invocation.args.data, invocation.args.x)
    ELSE TRUE

\* bin_search has come to its end, by return or by panic.
Ended == pc \in {"returned", "panicked"}

\* C28: on a non-empty ascending vector bin_search comes to an end without a
\* panic and returns the smallest index of a sample >= x, or the last index
\* when no sample is; on an empty vector it ends without returning an index.
C28_BinSearchLowerBound ==
    /\ []ReturnedLowerBound
    /\ [](pc = "panicked" => invocation.args.data = <<>>)
    /\ <>Ended

\* C28 happens: on a vector of MaxLen samples the search has returned an
\* index between the first and the last, after at least two iterations.
C28_Witness ==
    /\ pc = "returned"
    /\ Len(invocation.args.data) = MaxLen
    /\ invocation.ret[1] > 0
    /\ invocation.ret[1] < MaxLen - 1
    /\ invocation.args.data[invocation.ret[1]] < invocation.args.x

====
